---------------------------- MODULE Spec2Model ----------------------------
(***************************************************************************)
(* License ledger of dp-biotech-server (src/server.js, lines 1-348): the   *)
(* in-memory licenseDatabase, its CSV codec, the GitHub-backed load and    *)
(* commit, the Stripe webhook that activates a serial and the license      *)
(* query.                                                                  *)
(*                                                                         *)
(* Strings are sequences of one-character strings, so that split, trim,    *)
(* toUpperCase and the quoting of dbToCsv act on characters as in the      *)
(* source.  null and undefined are the one-element sequence Null, which no *)
(* string equals (its element is not a single character).                  *)
(***************************************************************************)
EXTENDS Integers, Sequences, FiniteSets, TLC

(***************************************************************************)
(* Strings                                                                 *)
(***************************************************************************)
Null == <<"null">>

LF == "\n"
CR == "\r"
Whitespace == {" ", "\t", LF, CR}

Range(s) == {s[i] : i \in 1..Len(s)}

LowerCase == <<"a","b","c","d","e","f","g","h","i","j","k","l","m",
               "n","o","p","q","r","s","t","u","v","w","x","y","z">>
UpperCase == <<"A","B","C","D","E","F","G","H","I","J","K","L","M",
               "N","O","P","Q","R","S","T","U","V","W","X","Y","Z">>

\* String.prototype.toUpperCase
toUpperCase(s) ==
    [i \in 1..Len(s) |->
        IF \E k \in 1..26 : LowerCase[k] = s[i]
        THEN UpperCase[CHOOSE k \in 1..26 : LowerCase[k] = s[i]]
        ELSE s[i]]

\* String.prototype.trim
trim(s) ==
    LET keep == {i \in 1..Len(s) : s[i] \notin Whitespace}
    IN IF keep = {} THEN <<>>
       ELSE LET lo == CHOOSE i \in keep : \A j \in keep : i <= j
                hi == CHOOSE i \in keep : \A j \in keep : j <= i
            IN SubSeq(s, lo, hi)

\* String.prototype.split(c) for a one-character separator: "" gives [""]
split(s, c) ==
    LET seps == {i \in 1..Len(s) : s[i] = c}
        n == Cardinality(seps)
        pos(k) == IF k = 0 THEN 0
                  ELSE IF k = n + 1 THEN Len(s) + 1
                  ELSE CHOOSE i \in seps : Cardinality({j \in seps : j < i}) = k - 1
    IN [k \in 1..(n + 1) |-> SubSeq(s, pos(k - 1) + 1, pos(k) - 1)]

\* String.prototype.split(/\r?\n/): a "\r" right before a "\n" belongs to the separator
splitLines(s) ==
    LET parts == split(s, LF)
    IN [k \in 1..Len(parts) |->
          IF k < Len(parts) /\ Len(parts[k]) > 0 /\ parts[k][Len(parts[k])] = CR
          THEN SubSeq(parts[k], 1, Len(parts[k]) - 1)
          ELSE parts[k]]

\* Array.prototype.filter(Boolean) on an array of strings: drops the empty ones
RECURSIVE filterBoolean(_)
filterBoolean(a) ==
    IF a = <<>> THEN <<>>
    ELSE IF Head(a) = <<>> THEN filterBoolean(Tail(a))
    ELSE <<Head(a)>> \o filterBoolean(Tail(a))

\* Array.prototype.join(sep)
RECURSIVE join(_, _)
join(a, sep) ==
    IF a = <<>> THEN <<>>
    ELSE IF Len(a) = 1 THEN a[1]
    ELSE a[1] \o sep \o join(Tail(a), sep)

\* v.replace(/"/g, '""')
RECURSIVE doubleQuotes(_)
doubleQuotes(v) ==
    IF v = <<>> THEN <<>>
    ELSE (IF Head(v) = "\"" THEN <<"\"", "\"">> ELSE <<Head(v)>>) \o doubleQuotes(Tail(v))

\* a || b for a string or null/undefined a: the empty string and null are falsy
OrElse(a, b) == IF a = Null \/ a = <<>> THEN b ELSE a

(***************************************************************************)
(* Literals of the source                                                  *)
(***************************************************************************)
S_True == <<"T","r","u","e">>
S_False == <<"F","a","l","s","e">>
S_not_active == <<"n","o","t","-","a","c","t","i","v","e">>
S_valid == <<"v","a","l","i","d">>
S_expired == <<"e","x","p","i","r","e","d">>
S_3d_models == <<"3","d","-","m","o","d","e","l","s">>
S_parallax == <<"p","a","r","a","l","l","a","x">>
S_image_addition == <<"i","m","a","g","e","-","a","d","d","i","t","i","o","n">>
S_ndi == <<"n","d","i">>
S_feature_ == <<"f","e","a","t","u","r","e","-">>

H_serial == <<"s","e","r","i","a","l">>
H_status == <<"s","t","a","t","u","s">>
H_activation_date == <<"a","c","t","i","v","a","t","i","o","n","_","d","a","t","e">>
H_expiration_date == <<"e","x","p","i","r","a","t","i","o","n","_","d","a","t","e">>
H_feature_3d_models == <<"f","e","a","t","u","r","e","_","3","d","_","m","o","d","e","l","s">>
H_feature_parallax == <<"f","e","a","t","u","r","e","_","p","a","r","a","l","l","a","x">>
H_feature_image_addition ==
    <<"f","e","a","t","u","r","e","_","i","m","a","g","e","_","a","d","d","i","t","i","o","n">>
H_feature_ndi == <<"f","e","a","t","u","r","e","_","n","d","i">>

CSV_HEADERS == <<H_serial, H_status, H_activation_date, H_expiration_date,
                 H_feature_3d_models, H_feature_parallax, H_feature_image_addition,
                 H_feature_ndi>>

(***************************************************************************)
(* Ledger: licenseDatabase is a JavaScript object, kept here as the        *)
(* sequence of its entries [serial, data] in insertion order, which is the *)
(* order Object.entries walks (the serials of the model are never          *)
(* integer-like keys).                                                     *)
(***************************************************************************)
Keys(db) == {db[i].serial : i \in 1..Len(db)}

HasKey(db, serial) == serial \in Keys(db)

\* db[serial]
Get(db, serial) == db[CHOOSE i \in 1..Len(db) : db[i].serial = serial].data

\* db[serial] = data
Put(db, serial, data) ==
    IF HasKey(db, serial)
    THEN [i \in 1..Len(db) |->
            IF db[i].serial = serial THEN [serial |-> serial, data |-> data] ELSE db[i]]
    ELSE Append(db, [serial |-> serial, data |-> data])

\* the field quoting of dbToCsv: /[",\n]/.test(v) ? `"${v.replace(/"/g, '""')}"` : v
csvEscape(v) ==
    IF \E i \in 1..Len(v) : v[i] \in {"\"", ",", LF}
    THEN <<"\"">> \o doubleQuotes(v) \o <<"\"">>
    ELSE v

includes(arr, x) == \E i \in 1..Len(arr) : arr[i] = x

\* mutant of csvRow: the feature columns hold the boolean as JavaScript prints it
csvRowBoolean(serial, data) ==
    LET bool(b) == IF b THEN <<"t","r","u","e">> ELSE <<"f","a","l","s","e">>
        row == << serial,
                  OrElse(data.status, S_not_active),
                  OrElse(data.activation_date, <<>>),
                  OrElse(data.expires, <<>>),
                  bool(includes(data.activeFeatures, S_3d_models)),
                  bool(includes(data.activeFeatures, S_parallax)),
                  bool(includes(data.activeFeatures, S_image_addition)),
                  bool(includes(data.activeFeatures, S_ndi)) >>
    IN join([k \in 1..8 |-> csvEscape(row[k])], <<",">>)

csvRow(serial, data) ==
    LET row == << serial,
                  OrElse(data.status, S_not_active),
                  OrElse(data.activation_date, <<>>),
                  OrElse(data.expires, <<>>),
                  IF includes(data.activeFeatures, S_3d_models) THEN S_True ELSE S_False,
                  IF includes(data.activeFeatures, S_parallax) THEN S_True ELSE S_False,
                  IF includes(data.activeFeatures, S_image_addition) THEN S_True ELSE S_False,
                  IF includes(data.activeFeatures, S_ndi) THEN S_True ELSE S_False >>
    IN join([k \in 1..8 |-> csvEscape(row[k])], <<",">>)

dbToCsv(db) ==
    join(<<join(CSV_HEADERS, <<",">>)>> \o [i \in 1..Len(db) |-> csvRow(db[i].serial, db[i].data)],
         <<LF>>)

\* mutant of headerIndex: a name the header lacks stands for the first column
headerIndexFirstColumn(header, name) ==
    LET at == {i \in 1..Len(header) : trim(header[i]) = name}
    IN IF at = {} THEN 1 ELSE CHOOSE i \in at : \A j \in at : j <= i

\* mutant of headerIndex: the position of the column in CSV_HEADERS, whatever the
\* first line of the text says
headerIndexFixed(header, name) ==
    IF \E k \in 1..Len(CSV_HEADERS) : CSV_HEADERS[k] = name
    THEN CHOOSE k \in 1..Len(CSV_HEADERS) : CSV_HEADERS[k] = name
    ELSE 0

\* idx[name]: the last header column whose trimmed name is name; 0 stands for undefined
headerIndex(header, name) ==
    LET at == {i \in 1..Len(header) : trim(header[i]) = name}
    IN IF at = {} THEN 0 ELSE CHOOSE i \in at : \A j \in at : j <= i

\* cols[idx.name] || dflt
col(cols, i, dflt) == IF i = 0 \/ i > Len(cols) THEN dflt ELSE OrElse(cols[i], dflt)

csvRecord(cols, header) ==
    LET feat(name, id) ==
            IF trim(col(cols, headerIndex(header, name), <<>>)) = S_True THEN <<id>> ELSE <<>>
        date(name) ==
            LET d == trim(col(cols, headerIndex(header, name), <<>>))
            IN IF d = <<>> THEN Null ELSE d
    IN [status |-> trim(col(cols, headerIndex(header, H_status), S_not_active)),
        activation_date |-> date(H_activation_date),
        expires |-> date(H_expiration_date),
        activeFeatures |-> feat(H_feature_3d_models, S_3d_models)
                           \o feat(H_feature_parallax, S_parallax)
                           \o feat(H_feature_image_addition, S_image_addition)
                           \o feat(H_feature_ndi, S_ndi)]

\* mutant of csvRows: a row whose serial already has a record is skipped
RECURSIVE csvRowsFirstWins(_, _, _, _)
csvRowsFirstWins(lines, header, i, out) ==
    IF i > Len(lines) THEN out
    ELSE LET cols == split(lines[i], ",")
             serial == trim(toUpperCase(col(cols, headerIndex(header, H_serial), <<>>)))
         IN IF serial = <<>> \/ HasKey(out, serial)
            THEN csvRowsFirstWins(lines, header, i + 1, out)
            ELSE csvRowsFirstWins(lines, header, i + 1,
                                  Put(out, serial, csvRecord(cols, header)))

RECURSIVE csvRows(_, _, _, _)
csvRows(lines, header, i, out) ==
    IF i > Len(lines) THEN out
    ELSE LET cols == split(lines[i], ",")
             serial == trim(toUpperCase(col(cols, headerIndex(header, H_serial), <<>>)))
         IN IF serial = <<>> THEN csvRows(lines, header, i + 1, out)
            ELSE csvRows(lines, header, i + 1, Put(out, serial, csvRecord(cols, header)))

csvToDb(csv) ==
    LET lines == filterBoolean(splitLines(csv))
    IN IF Len(lines) = 0 THEN <<>>
       ELSE csvRows(lines, split(lines[1], ","), 2, <<>>)

(***************************************************************************)
(* Dates: a date is [y, m, d]; the handler formats today and today plus    *)
(* one year (Date.prototype.setFullYear, which normalises an overflowing   *)
(* day of month into the following month).                                 *)
(***************************************************************************)
Digits == <<"0","1","2","3","4","5","6","7","8","9">>

\* String(n) for a natural number
RECURSIVE toString(_)
toString(n) == IF n < 10 THEN <<Digits[n + 1]>> ELSE toString(n \div 10) \o <<Digits[(n % 10) + 1]>>

\* s.padStart(2, '0')
padStart2(s) == IF Len(s) < 2 THEN <<"0">> \o s ELSE s

isLeapYear(y) == (y % 4 = 0 /\ y % 100 # 0) \/ y % 400 = 0

daysInMonth(y, m) ==
    IF m = 2 THEN (IF isLeapYear(y) THEN 29 ELSE 28)
    ELSE IF m \in {4, 6, 9, 11} THEN 30 ELSE 31

\* mutant of setFullYearPlusOne: a day the next year lacks becomes the last of its month
setFullYearClamped(t) ==
    [y |-> t.y + 1, m |-> t.m,
     d |-> IF t.d <= daysInMonth(t.y + 1, t.m) THEN t.d ELSE daysInMonth(t.y + 1, t.m)]

\* nextYear = new Date(today); nextYear.setFullYear(today.getFullYear() + 1)
setFullYearPlusOne(t) ==
    IF t.d <= daysInMonth(t.y + 1, t.m)
    THEN [y |-> t.y + 1, m |-> t.m, d |-> t.d]
    ELSE [y |-> t.y + 1, m |-> t.m + 1, d |-> t.d - daysInMonth(t.y + 1, t.m)]

\* `${yyyy}-${mm}-${dd}`
formatDate(t) == toString(t.y) \o <<"-">> \o padStart2(toString(t.m)) \o <<"-">> \o padStart2(toString(t.d))

(***************************************************************************)
(* The activation of the webhook handler                                   *)
(***************************************************************************)
\* mutant of canonicalSerial: the serial is upper-cased and not trimmed
canonicalSerialNoTrim(raw) == toUpperCase(OrElse(raw, <<>>))

\* (session.metadata?.serial_number || '').toUpperCase().trim()
canonicalSerial(raw) == trim(toUpperCase(OrElse(raw, <<>>)))

\* fid.replace(/^feature-/, '')
stripFeaturePrefix(fid) ==
    IF Len(fid) >= Len(S_feature_) /\ SubSeq(fid, 1, Len(S_feature_)) = S_feature_
    THEN SubSeq(fid, Len(S_feature_) + 1, Len(fid))
    ELSE fid

\* (session.metadata?.features_purchased || '').split(',').map(trim).filter(Boolean).map(replace)
featuresPurchased(raw) ==
    LET parts == split(OrElse(raw, <<>>), ",")
        kept == filterBoolean([k \in 1..Len(parts) |-> trim(parts[k])])
    IN [k \in 1..Len(kept) |-> stripFeaturePrefix(kept[k])]

\* mutant of arrayFromSet: the array is kept as it is
arrayNoSet(arr, seen) == arr

\* Array.from(new Set(arr)): the first occurrence of each element, in order
RECURSIVE arrayFromSet(_, _)
arrayFromSet(arr, seen) ==
    IF arr = <<>> THEN seen
    ELSE arrayFromSet(Tail(arr), IF includes(seen, Head(arr)) THEN seen ELSE Append(seen, Head(arr)))

DefaultRecord == [status |-> S_not_active, activation_date |-> Null, expires |-> Null,
                  activeFeatures |-> <<>>]

\* mutant of activatedRecord: the purchased features replace those of the record
activatedRecordReplace(old, feats, today) ==
    [status |-> S_valid,
     activation_date |-> formatDate(today),
     expires |-> formatDate(setFullYearPlusOne(today)),
     activeFeatures |-> arrayFromSet(feats, <<>>)]

\* mutant of activatedRecord: the purchased features are appended, not added to a Set
activatedRecordAppend(old, feats, today) ==
    [status |-> S_valid,
     activation_date |-> formatDate(today),
     expires |-> formatDate(setFullYearPlusOne(today)),
     activeFeatures |-> old.activeFeatures \o feats]

\* lines 314-331: the record of serial after the activation
activatedRecord(old, feats, today) ==
    [status |-> S_valid,
     activation_date |-> formatDate(today),
     expires |-> formatDate(setFullYearPlusOne(today)),
     activeFeatures |-> arrayFromSet(old.activeFeatures \o feats, <<>>)]

\* mutant of applyActivation: a serial that has a record is left as it is
applyActivationOnlyNew(db, serial, feats, today) ==
    IF HasKey(db, serial) THEN db
    ELSE Put(db, serial, activatedRecord(DefaultRecord, feats, today))

\* lines 313-331: licenseDatabase after the synchronous block of the handler
applyActivation(db, serial, feats, today) ==
    LET db1 == IF HasKey(db, serial) THEN db ELSE Put(db, serial, DefaultRecord)
    IN Put(db1, serial, activatedRecord(Get(db1, serial), feats, today))

(***************************************************************************)
(* Bounds and inputs of the model                                          *)
(***************************************************************************)
MaxEvents == 2          \* webhook deliveries in a run
MaxExternalWrites == 1  \* writes to the remote object by another writer
MaxQueries == 1         \* license queries in a run

Handlers == 1..MaxEvents

\* the event a webhook request delivers: signature valid or not, event type, and the
\* metadata of the checkout session (Null: no such metadata)
Event(sig, type, serial, features) ==
    [sig |-> sig, type |-> type, serial_number |-> serial, features_purchased |-> features]

Completed == "checkout.session.completed"

\* values of the process clock
Day1 == [y |-> 2023, m |-> 12, d |-> 31]
Day2 == [y |-> 2024, m |-> 2, d |-> 29]

\* the webhook requests of a run: the event delivered and the date the handler reads
Deliveries ==
    { [ev |-> Event(FALSE, Completed, <<"a","1">>, S_feature_ \o S_ndi), today |-> Day1],
      [ev |-> Event(TRUE, "payment_intent.succeeded", <<"a","1">>, S_feature_ \o S_ndi),
       today |-> Day1],
      [ev |-> Event(TRUE, Completed, Null, S_feature_ \o S_ndi), today |-> Day1],
      [ev |-> Event(TRUE, Completed, <<" ">>, Null), today |-> Day2],
      [ev |-> Event(TRUE, Completed, <<"a","1">>, S_feature_ \o S_ndi), today |-> Day1],
      [ev |-> Event(TRUE, Completed, <<" ","A","1">>, S_feature_ \o S_parallax), today |-> Day2],
      [ev |-> Event(TRUE, Completed, <<"b",",">>, S_feature_ \o S_ndi), today |-> Day2] }

NoEvent == Event(FALSE, "none", Null, Null)

\* values of req.params.serial
QuerySerials == { <<"a","1"," ">>, <<"B",",">> }

\* ledgers stored in the remote object before the process starts
StoredRecord == [status |-> S_expired,
                 activation_date |-> formatDate([y |-> 2022, m |-> 3, d |-> 1]),
                 expires |-> formatDate([y |-> 2023, m |-> 3, d |-> 1]),
                 activeFeatures |-> <<S_3d_models>>]
StoredLedgers == { << [serial |-> <<"A","1">>, data |-> StoredRecord] >> }

\* ledgers another writer stores in the remote object
ExternalLedgers == { << [serial |-> <<"Z","9">>, data |-> StoredRecord] >> }

(***************************************************************************)
(* The price of a cart item and the /create-checkout-session handler       *)
(***************************************************************************)
S_dp_mini_ == <<"d","p","-","m","i","n","i","-">>
S_dppro_ == <<"d","p","p","r","o","-">>
S_dp_mini_base == S_dp_mini_ \o <<"b","a","s","e">>
S_dp_pro_base == <<"d","p","-","p","r","o","-","b","a","s","e">>
S_license_base == <<"l","i","c","e","n","s","e","-","b","a","s","e">>
S_constructor == <<"c","o","n","s","t","r","u","c","t","o","r">>


\* the keys of OPTIONS_PRICES that calculateItemPrice looks up or searches for
OptionKey ==
    [k50mm |-> <<"5","0","m","m">>,
     k60mm |-> <<"6","0","m","m">>,
     k75mm |-> <<"7","5","m","m">>,
     Screen |-> <<"S","c","r","e","e","n">>,
     Full_HD |-> <<"F","u","l","l"," ","H","D">>,
     k4K_UHD |-> <<"4","K"," ","U","H","D">>,
     Enhanced |-> <<"E","n","h","a","n","c","e","d">>,
     Extended |-> <<"E","x","t","e","n","d","e","d">>,
     Advanced |-> <<"A","d","v","a","n","c","e","d">>,
     Multifunctional_Joystick |-> <<"M","u","l","t","i","f","u","n","c","t","i","o","n","a","l"," ","J","o","y","s","t","i","c","k">>,
     Foot_Pedal_Control |-> <<"F","o","o","t"," ","P","e","d","a","l"," ","C","o","n","t","r","o","l">>]

\* String.prototype.startsWith
startsWith(s, prefix) == Len(s) >= Len(prefix) /\ SubSeq(s, 1, Len(prefix)) = prefix

\* String.prototype.includes
includesText(s, sub) ==
    \E i \in 1..(Len(s) - Len(sub) + 1) : SubSeq(s, i, i + Len(sub) - 1) = sub

\* what a table gives for a key it does not have, and what it gives for a key that
\* Object.prototype has (a function, which is truthy and is no number)
Undefined == -1
Inherited == -2

\* PRICES[id], in cents
PRICES(id) ==
    IF id = S_dp_mini_base THEN 299000
    ELSE IF id = S_dp_pro_base THEN 899000
    ELSE IF id = S_license_base THEN 60000
    ELSE IF id = S_feature_ \o S_3d_models THEN 12900
    ELSE IF id = S_feature_ \o S_parallax THEN 4900
    ELSE IF id = S_feature_ \o S_image_addition THEN 4900
    ELSE IF id = S_feature_ \o S_ndi THEN 22000
    ELSE IF id = S_constructor THEN Inherited
    ELSE Undefined

\* OPTIONS_PRICES.objective[key] and OPTIONS_PRICES.eyepiece[key]
objectivePrice(key) ==
    IF key = OptionKey.k50mm THEN 0 ELSE IF key = OptionKey.k60mm THEN 29000
    ELSE IF key = OptionKey.k75mm THEN 54000 ELSE Undefined

eyepiecePrice(key) ==
    IF key = OptionKey.Screen THEN 0 ELSE IF key = OptionKey.Full_HD THEN 154000
    ELSE IF key = OptionKey.k4K_UHD THEN 208500 ELSE Undefined

\* item.options || {}: an item without options has every option undefined
NoOptions == [objective |-> Null, eyepiece |-> Null, mount |-> Null, stabilization |-> Null,
              arm |-> Null, ai |-> Null, controls |-> Null]

\* options.x && options.x.includes(text)
optionIncludes(value, text) == value # Null /\ value # <<>> /\ includesText(value, text)

Return(amount) == [kind |-> "return", amount |-> amount, message |-> ""]
Throw(message) == [kind |-> "throw", amount |-> Undefined, message |-> message]

\* mutant of calculateItemPrice: the price the client sent is the price
calculateItemPriceClient(item) == Return(item.price)

\* lines 175-225; every price of OPTIONS_PRICES.mount is 0, so the mount adds 0
calculateItemPrice(item) ==
    IF item.id = Null \/ item.id = <<>> THEN Throw("Invalid product data provided.")
    ELSE IF PRICES(item.id) # Undefined THEN Return(PRICES(item.id))
    ELSE IF startsWith(item.id, S_dp_mini_)
    THEN IF \/ objectivePrice(item.options.objective) = Undefined
            \/ eyepiecePrice(item.options.eyepiece) = Undefined
         THEN Throw("Invalid options for DP Mini")
         ELSE Return(PRICES(S_dp_mini_base) + objectivePrice(item.options.objective)
                     + eyepiecePrice(item.options.eyepiece) + 0)
    ELSE IF startsWith(item.id, S_dppro_)
    THEN Return(PRICES(S_dp_pro_base)
                + (IF optionIncludes(item.options.stabilization, OptionKey.Enhanced) THEN 45000 ELSE 0)
                + (IF optionIncludes(item.options.arm, OptionKey.Extended) THEN 68000 ELSE 0)
                + (IF optionIncludes(item.options.ai, OptionKey.Advanced) THEN 59000 ELSE 0)
                + (IF optionIncludes(item.options.controls, OptionKey.Multifunctional_Joystick)
                   THEN 28000 ELSE 0)
                + (IF optionIncludes(item.options.controls, OptionKey.Foot_Pedal_Control)
                   THEN 19000 ELSE 0))
    ELSE Throw("ID Prodotto non valido")

\* lines 287-292: the status of the response to an error caught by the handler;
\* statusCode 0 stands for an error without a statusCode
errorStatus(message, statusCode) ==
    IF message \in {"ID Prodotto non valido", "Invalid options for DP Mini"} THEN 400
    ELSE IF statusCode # 0 THEN statusCode
    ELSE 500

NoMetadata == [serial_number |-> Null, features_purchased |-> Null]

\* cart.filter(...).map((i) => i.id): the ids of the cart that start with feature-
RECURSIVE featureIds(_)
featureIds(cart) ==
    IF cart = <<>> THEN <<>>
    ELSE (IF startsWith(Head(cart).id, S_feature_) THEN <<Head(cart).id>> ELSE <<>>)
         \o featureIds(Tail(cart))

\* mutant of checkoutMetadata: the ids of the whole cart are the features purchased
checkoutMetadataWholeCart(req) ==
    IF req.serialNumber = Null \/ req.serialNumber = <<>> THEN NoMetadata
    ELSE [serial_number |-> toUpperCase(req.serialNumber),
          features_purchased |-> join([k \in 1..Len(req.cart) |-> req.cart[k].id], <<",">>)]

\* lines 257-262
checkoutMetadata(req) ==
    IF req.serialNumber = Null \/ req.serialNumber = <<>> THEN NoMetadata
    ELSE [serial_number |-> toUpperCase(req.serialNumber),
          features_purchased |-> join(featureIds(req.cart), <<",">>)]

NoSession == [created |-> FALSE, metadata |-> NoMetadata, amounts |-> <<>>]

Handled(req, status, lineItems, session) ==
    [req |-> req, status |-> status, lineItems |-> lineItems, session |-> session]

\* lines 239-295: the request as the handler leaves it. The handler reads and writes
\* nothing of the process between its awaits, so its two calls to Stripe are taken
\* with their outcome: stripe.failed names the call that is rejected, if any. Stripe
\* creates no session for a unit_amount that is no integer: it answers 400.
checkoutHandled(req, stripe) ==
    IF req.customerEmail = Null \/ req.customerEmail = <<>> \/ req.cart = <<>>
    THEN Handled(req, 400, <<>>, NoSession)
    ELSE LET priced == [k \in 1..Len(req.cart) |-> calculateItemPrice(req.cart[k])]
             thrown == {k \in 1..Len(priced) : priced[k].kind = "throw"}
             amounts == [k \in 1..Len(priced) |-> priced[k].amount]
             reply == IF stripe.failed # "customer" /\ \E k \in 1..Len(amounts) : amounts[k] = Inherited
                      THEN [failed |-> "session", statusCode |-> 400]
                      ELSE stripe
         IN IF thrown # {}
            THEN Handled(req,
                         errorStatus(priced[CHOOSE k \in thrown : \A j \in thrown : k <= j].message, 0),
                         <<>>, NoSession)
            ELSE IF reply.failed # "none"
            THEN Handled(req, errorStatus("stripe", reply.statusCode), amounts, NoSession)
            ELSE Handled(req, 200, amounts,
                         [created |-> TRUE, metadata |-> checkoutMetadata(req), amounts |-> amounts])

\* the checkout.session.completed event Stripe sends for a session that was paid
sessionEvent(session) ==
    Event(TRUE, Completed, session.metadata.serial_number, session.metadata.features_purchased)

(***************************************************************************)
(* State                                                                   *)
(***************************************************************************)
NoSha == 0   \* currentGitSha = null, and a PUT body without sha

VARIABLES
    licenseDatabase,  \* the in-memory ledger (line 38)
    currentGitSha,    \* the version token (line 113), NoSha for null
    remote,           \* the file behind the GitHub contents API: [exists, content, sha,
                      \* blobs], blobs being the contents the file has had so far
    load,             \* the startup load: [pc, reply, threw]
    hook,             \* per webhook request: [pc, ev, req, reply, res]
    queryRes,         \* the responses of /check-license so far
    extWrites,        \* writes of another writer so far
    tokenSrc,         \* history: what last assigned currentGitSha
    observed,         \* history: the shas the process received from GitHub
    issue,            \* history, per webhook request: the store when its PUT was issued
                      \* and what GitHub did with the PUT
    acts,             \* history: the activations applied and the loads completed, in order:
                      \* [kind, h, serial, purchased, today, inFlight, pre, db]
    codec,            \* the codec applied on its own: [pc, ledger, text, out]
    checkout          \* the /create-checkout-session requests handled, oldest first

vars == <<licenseDatabase, currentGitSha, remote, load, hook, queryRes, extWrites,
          tokenSrc, observed, issue, acts, codec, checkout>>

Absent == [exists |-> FALSE, content |-> <<>>, sha |-> NoSha, blobs |-> <<>>]

\* the file as it is before the process starts, with the given content
StoredFile(content) == [exists |-> TRUE, content |-> content, sha |-> 1, blobs |-> <<content>>]

NoReq == [content |-> <<>>, sha |-> NoSha]
NoReply == [kind |-> "none", content |-> <<>>, sha |-> NoSha]
NoIssue == [held |-> NoSha, src |-> "none", db |-> <<>>, nActs |-> 0,
            accepted |-> FALSE, replaced |-> NoSha, newSha |-> NoSha]
IdleHook == [pc |-> "idle", ev |-> NoEvent, req |-> NoReq, reply |-> NoReply, res |-> "none"]
IdleCodec == [pc |-> "idle", ledger |-> <<>>, text |-> <<>>, out |-> <<>>]

Init ==
    /\ licenseDatabase = <<>>
    /\ currentGitSha = NoSha
    /\ remote \in {Absent} \cup {StoredFile(dbToCsv(L)) : L \in StoredLedgers}
    /\ load = [pc |-> "fetching", reply |-> NoReply, threw |-> FALSE]   \* line 347: the GET is under way
    /\ hook = [h \in Handlers |-> IdleHook]
    /\ queryRes = <<>>
    /\ extWrites = 0
    /\ tokenSrc = "init"
    /\ observed = {}
    /\ issue = [h \in Handlers |-> NoIssue]
    /\ acts = <<>>
    /\ codec = IdleCodec
    /\ checkout = <<>>

(***************************************************************************)
(* The remote: the GitHub contents API as githubGetFile and githubPutFile  *)
(* use it.  The base64 transport encoding of the content is applied and    *)
(* removed on the way (lines 123 and 136) and is left out.                 *)
(***************************************************************************)
\* the sha GitHub reports for the file when its content is content: the git blob sha,
\* a hash of the content, here the position of the content among the contents the
\* file has had; a content the file had before has the sha it had then
blobSha(content) ==
    IF \E i \in 1..Len(remote.blobs) : remote.blobs[i] = content
    THEN CHOOSE i \in 1..Len(remote.blobs) : remote.blobs[i] = content
    ELSE Len(remote.blobs) + 1

\* the file after a write of content
written(content) ==
    [exists |-> TRUE, content |-> content, sha |-> blobSha(content),
     blobs |-> IF blobSha(content) > Len(remote.blobs)
               THEN Append(remote.blobs, content) ELSE remote.blobs]

\* PUT /contents of the GitHub API: a request without sha creates the file and is
\* refused (422) when the file exists; a request with sha replaces the file when sha
\* is the sha of its current blob and is refused (409) otherwise
putAccepted(req) ==
    IF remote.exists THEN req.sha = remote.sha ELSE req.sha = NoSha

\* GET /contents is answered: 404, 200 with content and sha, or a failure
GitHubServeGet ==
    /\ load.pc = "fetching"
    /\ \E failure \in BOOLEAN :
         load' = [pc |-> "replied", threw |-> FALSE,
                  reply |-> IF failure THEN [NoReply EXCEPT !.kind = "error"]
                            ELSE IF ~remote.exists THEN [NoReply EXCEPT !.kind = "notfound"]
                            ELSE [kind |-> "ok", content |-> remote.content, sha |-> remote.sha]]
    /\ UNCHANGED <<licenseDatabase, currentGitSha, remote, hook, queryRes, extWrites,
                   tokenSrc, observed, issue, acts, codec, checkout>>

\* PUT /contents is answered: 200 with the new sha, or 409/422, or the transport fails,
\* either before the request reaches GitHub or after GitHub has acted on it
GitHubServePut(h) ==
    /\ hook[h].pc = "awaitPut"
    /\ \E net \in {"ok", "requestLost", "responseLost"} :
         LET accepted == net # "requestLost" /\ putAccepted(hook[h].req)
         IN /\ remote' = IF accepted
                         THEN written(hook[h].req.content)
                         ELSE remote
            /\ hook' = [hook EXCEPT
                          ![h].pc = "putReplied",
                          ![h].reply = IF net # "ok" THEN [NoReply EXCEPT !.kind = "neterr"]
                                       ELSE IF accepted
                                       THEN [kind |-> "ok", content |-> <<>>,
                                             sha |-> blobSha(hook[h].req.content)]
                                       ELSE [NoReply EXCEPT !.kind = "rejected"]]
            /\ issue' = [issue EXCEPT ![h].accepted = accepted,
                                      ![h].replaced = IF accepted THEN remote.sha ELSE NoSha,
                                      ![h].newSha = IF accepted THEN blobSha(hook[h].req.content)
                                                    ELSE NoSha]
    /\ UNCHANGED <<licenseDatabase, currentGitSha, load, queryRes, extWrites,
                   tokenSrc, observed, acts, codec, checkout>>

\* another writer commits to the same file: a ledger of its own, or a content the
\* file had before (a revert)
ExternalWrite ==
    /\ extWrites < MaxExternalWrites
    /\ \E content \in {dbToCsv(L) : L \in ExternalLedgers} \cup Range(remote.blobs) :
         /\ content # remote.content
         /\ remote' = written(content)
    /\ extWrites' = extWrites + 1
    /\ UNCHANGED <<licenseDatabase, currentGitSha, load, hook, queryRes,
                   tokenSrc, observed, issue, acts, codec, checkout>>

(***************************************************************************)
(* The process: startup load, webhook handler, license query.  A handler   *)
(* runs without interruption from one await to the next (one JavaScript    *)
(* thread), so each action below is the code between two awaits.           *)
(***************************************************************************)
\* mutant of putSha: the PUT carries the sha of whatever revision the file has now
putShaLatest(sha) == remote.sha

\* mutant of putSha: the PUT never carries a sha
putShaNever(sha) == NoSha

\* line 139: sha: currentGitSha || undefined
putSha(sha) == sha

\* line 135: const csv = dbToCsv(licenseDatabase)
putContent(db) == dbToCsv(db)

\* mutant of shaAfterCommit: the sha of the answer is not stored
shaAfterCommitKeep(resultSha, sha) == sha

\* line 141: currentGitSha = result.content?.sha || currentGitSha
shaAfterCommit(resultSha, sha) == IF resultSha # NoSha THEN resultSha ELSE sha

\* mutant of webhookResponse: after a failed commit no response is sent
webhookResponseOnlyOnSuccess(replyKind) == IF replyKind = "ok" THEN "received" ELSE "none"

\* mutant of webhookResponse: a failed commit becomes an error response
webhookResponseError(replyKind) == IF replyKind = "ok" THEN "received" ELSE "500"

\* lines 333-341: the response of the handler once the commit attempt has ended
webhookResponse(replyKind) == "received"

\* mutant of afterCommitFailure: the catch block discards the ledger
afterCommitFailureReset(db) == <<>>

\* lines 335-337: the catch block logs and leaves licenseDatabase alone
afterCommitFailure(db) == db

\* mutant of syncBlock: the record is written only after the commit, so that at the
\* first await licenseDatabase is as before
syncBlockAfterCommit(db, serial, feats, today) == db

\* mutant of syncBlock: the handler yields after line 322, before expires and
\* activeFeatures are written
syncBlockYieldEarly(db, serial, feats, today) ==
    LET db1 == IF HasKey(db, serial) THEN db ELSE Put(db, serial, DefaultRecord)
    IN Put(db1, serial, [Get(db1, serial) EXCEPT !.status = S_valid,
                                                 !.activation_date = formatDate(today)])

\* lines 313-331: the ledger other handlers see when this one reaches its first await
syncBlock(db, serial, feats, today) == applyActivation(db, serial, feats, today)

\* mutant of isCheckoutCompleted: events of every type are taken for a completed checkout
isCheckoutCompletedAny(type) == TRUE

\* line 306: if (event.type === 'checkout.session.completed')
isCheckoutCompleted(type) == type = Completed

\* mutant of hasSerial: the handler activates whatever the serial is
hasSerialAlways(serial) == TRUE

\* line 313: if (serial)
hasSerial(serial) == serial # <<>>

\* mutant of checkLicense: the serial of the request is looked up as it was sent
checkLicenseExact(db, raw) ==
    IF HasKey(db, raw)
    THEN [serial |-> raw, status |-> 200, body |-> Get(db, raw)]
    ELSE [serial |-> raw, status |-> 404, body |-> DefaultRecord]

\* lines 233-236: the response of /check-license/:serial
checkLicense(db, raw) ==
    LET serial == trim(toUpperCase(OrElse(raw, <<>>)))
    IN IF HasKey(db, serial)
       THEN [serial |-> raw, status |-> 200, body |-> Get(db, serial)]
       ELSE [serial |-> raw, status |-> 404, body |-> DefaultRecord]

\* mutant of loadedLedger: a file that is not found leaves licenseDatabase as it is
loadedLedgerKeepOnNotFound(reply) ==
    IF reply.kind = "ok" THEN csvToDb(reply.content)
    ELSE IF reply.kind = "notfound" THEN licenseDatabase
    ELSE <<>>

\* lines 119, 124 and 129: licenseDatabase as loadDatabaseFromGitHub leaves it
loadedLedger(reply) == IF reply.kind = "ok" THEN csvToDb(reply.content) ELSE <<>>

\* lines 120, 125 and 130: currentGitSha as loadDatabaseFromGitHub leaves it
loadedSha(reply) == IF reply.kind = "ok" THEN reply.sha ELSE NoSha

\* mutant of loadThrows: the error of githubGetFile leaves loadDatabaseFromGitHub
loadThrowsOnError(reply) == reply.kind = "error"

\* lines 115 and 127-131: the try block spans the whole body and the catch block
\* only logs and assigns, so no exception leaves loadDatabaseFromGitHub
loadThrows(reply) == FALSE

\* lines 345-348: an exception leaving loadDatabaseFromGitHub would reject the promise
\* of the listen callback, which nothing handles, and Node.js ends the process
processAlive == ~load.threw

\* lines 117-131: the continuation of loadDatabaseFromGitHub after the GET
LoadResume ==
    /\ load.pc = "replied"
    /\ load' = [load EXCEPT !.pc = "done", !.threw = loadThrows(load.reply)]
    /\ licenseDatabase' = loadedLedger(load.reply)
    /\ currentGitSha' = loadedSha(load.reply)
    /\ tokenSrc' = IF load.reply.kind = "ok" THEN "loaded" ELSE load.reply.kind
    /\ observed' = IF load.reply.kind = "ok" THEN observed \cup {load.reply.sha} ELSE observed
    /\ acts' = Append(acts, [kind |-> "load", h |-> 0, serial |-> <<>>, purchased |-> <<>>,
                             today |-> Day1, inFlight |-> {}, pre |-> <<>>,
                             db |-> licenseDatabase'])
    /\ UNCHANGED <<remote, hook, queryRes, extWrites, issue, codec, checkout>>

\* lines 297-334: the handler up to its first await (or to its response)
WebhookReceive(h, ev, today) ==
    /\ processAlive
    /\ hook[h].pc = "idle"
    /\ h > 1 => hook[h - 1].pc # "idle"
    /\   LET serial == canonicalSerial(ev.serial_number)
             feats == featuresPurchased(ev.features_purchased)
         IN IF ~ev.sig
            THEN /\ hook' = [hook EXCEPT ![h] = [IdleHook EXCEPT !.pc = "done", !.ev = ev, !.res = "400"]]
                 /\ UNCHANGED <<licenseDatabase, issue, acts>>
            ELSE IF ~isCheckoutCompleted(ev.type) \/ ~hasSerial(serial)
            THEN /\ hook' = [hook EXCEPT ![h] = [IdleHook EXCEPT !.pc = "done", !.ev = ev, !.res = "received"]]
                 /\ UNCHANGED <<licenseDatabase, issue, acts>>
            ELSE /\ licenseDatabase' = syncBlock(licenseDatabase, serial, feats, today)
                 /\ hook' = [hook EXCEPT ![h] = [IdleHook EXCEPT
                                !.pc = "awaitPut", !.ev = ev,
                                !.req = [content |-> putContent(licenseDatabase'),
                                         sha |-> putSha(currentGitSha)]]]
                 /\ issue' = [issue EXCEPT ![h] = [NoIssue EXCEPT
                                !.held = currentGitSha, !.src = tokenSrc,
                                !.db = licenseDatabase', !.nActs = Len(acts) + 1]]
                 /\ acts' = Append(acts, [kind |-> "act", h |-> h, serial |-> serial,
                                          purchased |-> feats, today |-> today,
                                          inFlight |-> {g \in Handlers :
                                                          hook[g].pc \in {"awaitPut", "putReplied"}},
                                          pre |-> IF HasKey(licenseDatabase, serial)
                                                  THEN Get(licenseDatabase, serial).activeFeatures
                                                  ELSE <<>>,
                                          db |-> licenseDatabase'])
    /\ UNCHANGED <<currentGitSha, remote, load, queryRes, extWrites, tokenSrc, observed, codec, checkout>>

\* lines 141-142 and 335-341: the handler after the PUT has been answered
WebhookResume(h) ==
    /\ processAlive
    /\ hook[h].pc = "putReplied"
    /\ hook' = [hook EXCEPT ![h].pc = "done", ![h].res = webhookResponse(hook[h].reply.kind)]
    /\ IF hook[h].reply.kind = "ok"
       THEN /\ currentGitSha' = shaAfterCommit(hook[h].reply.sha, currentGitSha)
            /\ tokenSrc' = "commit"
            /\ observed' = observed \cup {hook[h].reply.sha}
            /\ UNCHANGED licenseDatabase
       ELSE /\ licenseDatabase' = afterCommitFailure(licenseDatabase)
            /\ UNCHANGED <<currentGitSha, tokenSrc, observed>>
    /\ UNCHANGED <<remote, load, queryRes, extWrites, issue, acts, codec, checkout>>

\* lines 232-237
Query(raw) ==
    /\ processAlive
    /\ Len(queryRes) < MaxQueries
    /\ queryRes' = Append(queryRes, checkLicense(licenseDatabase, raw))
    /\ UNCHANGED <<licenseDatabase, currentGitSha, remote, load, hook, extWrites,
                   tokenSrc, observed, issue, acts, codec, checkout>>

Next ==
    \/ GitHubServeGet
    \/ LoadResume
    \/ \E h \in Handlers, x \in Deliveries : WebhookReceive(h, x.ev, x.today)
    \/ \E h \in Handlers : GitHubServePut(h)
    \/ \E h \in Handlers : WebhookResume(h)
    \/ \E raw \in QuerySerials : Query(raw)
    \/ ExternalWrite

Spec == Init /\ [][Next]_vars

\* The process when GitHub answers every PUT sooner or later (with success, with a
\* refusal or with a transport error that fetch reports) and the event loop runs
\* every continuation that is ready
Fairness ==
    \A h \in Handlers : WF_vars(GitHubServePut(h)) /\ WF_vars(WebhookResume(h))

SpecLive == Init /\ [][Next]_vars /\ Fairness

(***************************************************************************)
(* The codec on its own: a ledger is encoded, the text is decoded.         *)
(***************************************************************************)
MaxLedger == 2   \* records of a ledger given to the codec

\* canonical serials: plain, with a comma, with a double quote, with a line break
LedgerSerials == { <<"A","1">>, <<"B",",">>, <<"C","\"">>, <<"D",LF,"E">> }

LedgerRecords ==
    { DefaultRecord,
      StoredRecord,
      [status |-> S_valid, activation_date |-> formatDate(Day2),
       expires |-> formatDate(setFullYearPlusOne(Day2)),
       activeFeatures |-> <<S_ndi, S_3d_models>>] }

CodecLedgers ==
    UNION { { L \in [1..n -> [serial : LedgerSerials, data : LedgerRecords]] :
                \A i, j \in 1..n : i # j => L[i].serial # L[j].serial } : n \in 0..MaxLedger }

ProcessIdle ==
    /\ licenseDatabase = <<>>
    /\ currentGitSha = NoSha
    /\ remote = Absent
    /\ load = [pc |-> "fetching", reply |-> NoReply, threw |-> FALSE]
    /\ hook = [h \in Handlers |-> IdleHook]
    /\ queryRes = <<>>
    /\ extWrites = 0
    /\ tokenSrc = "init"
    /\ observed = {}
    /\ issue = [h \in Handlers |-> NoIssue]
    /\ acts = <<>>
    /\ checkout = <<>>

processVars == <<licenseDatabase, currentGitSha, remote, load, hook, queryRes, extWrites,
                 tokenSrc, observed, issue, acts, checkout>>

CodecInit ==
    /\ ProcessIdle
    /\ \E L \in CodecLedgers : codec = [pc |-> "input", ledger |-> L, text |-> <<>>, out |-> <<>>]

CodecEncode ==
    /\ codec.pc = "input"
    /\ codec' = [codec EXCEPT !.pc = "encoded", !.text = dbToCsv(codec.ledger)]
    /\ UNCHANGED processVars

CodecDecode ==
    /\ codec.pc = "encoded"
    /\ codec' = [codec EXCEPT !.pc = "decoded", !.out = csvToDb(codec.text)]
    /\ UNCHANGED processVars

CodecNext == CodecEncode \/ CodecDecode

SpecCodec == CodecInit /\ [][CodecNext]_vars

(***************************************************************************)
(* csvToDb on its own, on texts that dbToCsv did not write: a first line   *)
(* out of HeaderLines, then up to MaxRows lines out of RowLines, separated *)
(* by "\n" or by "\r\n"; and the empty text and a text of line breaks.     *)
(***************************************************************************)
MaxRows == 2   \* lines after the first line of a text given to csvToDb

\* first lines: the columns in the order of dbToCsv, permuted, between blanks, and
\* first lines without a column named serial
HeaderLines ==
    { <<"s","e","r","i","a","l",",","s","t","a","t","u","s",",","f","e","a","t","u","r","e","_","n","d","i">>,
      <<"s","t","a","t","u","s",",","f","e","a","t","u","r","e","_","n","d","i",",","s","e","r","i","a","l">>,
      <<" ","s","e","r","i","a","l"," ",","," ","s","t","a","t","u","s",",","f","e","a","t","u","r","e","_","n","d","i"," ">>,
      <<"n","o","t",",","a",",","v","a","l","i","d",",","h","e","a","d","e","r">>,
      <<"S","e","r","i","a","l",",","s","t","a","t","u","s",",","f","e","a","t","u","r","e","_","n","d","i">>,
      <<"s","t","a","t","u","s",",","f","e","a","t","u","r","e","_","n","d","i">> }

RowLines ==
    { <<"a","1",",","v","a","l","i","d",",","T","r","u","e">>,
      <<" ","b","2"," ",",",","," ","T","r","u","e"," ">>,
      <<"e","x","p","i","r","e","d",",","F","a","l","s","e",",","a","1">>,
      <<"c","3",","," ",",","T","r","u","e">>,
      <<"d","4">>,
      <<" ","A","1"," ",",","e","x","p","i","r","e","d",",","t","r","u","e">>,
      <<" ",",",",">> }

LineBreaks == { <<LF>>, <<CR, LF>> }

DecodeTexts ==
    {<<>>, <<LF, CR, LF>>} \cup
    UNION { { join(<<hd>> \o rows, br) : hd \in HeaderLines, br \in LineBreaks,
                                          rows \in [1..n -> RowLines] } : n \in 0..MaxRows }

DecodeInit ==
    /\ ProcessIdle
    /\ \E text \in DecodeTexts :
         codec = [pc |-> "encoded", ledger |-> <<>>, text |-> text, out |-> <<>>]

DecodeNext == CodecDecode

SpecDecode == DecodeInit /\ [][DecodeNext]_vars

(***************************************************************************)
(* The process without another writer, with a hand-edited file behind the  *)
(* load and with purchases that repeat a serial in other spellings, repeat *)
(* a feature and carry a feature the price list does not know.             *)
(***************************************************************************)
\* the text of a file with the header of CSV_HEADERS and the given rows of fields
csvText(rows) ==
    join(<<join(CSV_HEADERS, <<",">>)>> \o [i \in 1..Len(rows) |-> join(rows[i], <<",">>)],
         <<LF>>)

\* a file edited by hand: a serial in lower case between blanks, a row with a blank
\* status and no dates, and a row with a blank serial
LedgerTexts ==
    { csvText(<< << <<" ","a","1"," ">>, S_expired,
                    formatDate([y |-> 2022, m |-> 3, d |-> 1]),
                    formatDate([y |-> 2023, m |-> 3, d |-> 1]),
                    S_True, S_False, S_False, S_False >>,
                 << <<"n","1">>, <<>>, <<>>, <<>>, S_False, S_False, S_False, S_False >>,
                 << <<" "," ">>, S_valid, <<>>, <<>>, S_True, S_True, S_False, S_False >> >>) }

S_gold == <<"g","o","l","d">>

LedgerDeliveries ==
    { [ev |-> Event(TRUE, Completed, <<"x","z">>, S_feature_ \o S_3d_models), today |-> Day1],
      [ev |-> Event(TRUE, Completed, <<" ","X","z"," ">>, S_feature_ \o S_3d_models),
       today |-> Day2],
      [ev |-> Event(TRUE, Completed, <<"x","Z">>,
                    S_feature_ \o S_parallax \o <<","," ">> \o S_feature_ \o S_parallax),
       today |-> Day2],
      [ev |-> Event(TRUE, Completed, <<" ","a","1">>, S_feature_ \o S_gold), today |-> Day1],
      [ev |-> Event(TRUE, Completed, <<"n","1">>, Null), today |-> Day2] }

\* values of req.params.serial
LedgerQuerySerials == { <<"x","z"," ">>, <<"A","1">> }

LedgerInit ==
    /\ licenseDatabase = <<>>
    /\ currentGitSha = NoSha
    /\ remote \in {Absent} \cup {StoredFile(t) : t \in LedgerTexts}
    /\ load = [pc |-> "fetching", reply |-> NoReply, threw |-> FALSE]
    /\ hook = [h \in Handlers |-> IdleHook]
    /\ queryRes = <<>>
    /\ extWrites = 0
    /\ tokenSrc = "init"
    /\ observed = {}
    /\ issue = [h \in Handlers |-> NoIssue]
    /\ acts = <<>>
    /\ codec = IdleCodec
    /\ checkout = <<>>

LedgerNext ==
    \/ GitHubServeGet
    \/ LoadResume
    \/ \E h \in Handlers, x \in LedgerDeliveries : WebhookReceive(h, x.ev, x.today)
    \/ \E h \in Handlers : GitHubServePut(h)
    \/ \E h \in Handlers : WebhookResume(h)
    \/ \E raw \in LedgerQuerySerials : Query(raw)

SpecLedger == LedgerInit /\ [][LedgerNext]_vars

(***************************************************************************)
(* One webhook request after a load that found no file, on any day of the  *)
(* years of CalendarYears.                                                 *)
(***************************************************************************)
CalendarYears == {2023, 2024}

CalendarDays ==
    {t \in [y : CalendarYears, m : 1..12, d : 1..31] : t.d <= daysInMonth(t.y, t.m)}

CalendarInit ==
    /\ licenseDatabase = <<>>
    /\ currentGitSha = NoSha
    /\ remote = Absent
    /\ load = [pc |-> "done", reply |-> [NoReply EXCEPT !.kind = "notfound"], threw |-> FALSE]
    /\ hook = [h \in Handlers |-> IdleHook]
    /\ queryRes = <<>>
    /\ extWrites = 0
    /\ tokenSrc = "notfound"
    /\ observed = {}
    /\ issue = [h \in Handlers |-> NoIssue]
    /\ acts = <<[kind |-> "load", h |-> 0, serial |-> <<>>, purchased |-> <<>>,
                 today |-> Day1, inFlight |-> {}, pre |-> <<>>, db |-> <<>>]>>
    /\ codec = IdleCodec
    /\ checkout = <<>>

CalendarNext ==
    \/ \E today \in CalendarDays :
         WebhookReceive(1, Event(TRUE, Completed, <<"a","1">>, S_feature_ \o S_ndi), today)
    \/ GitHubServePut(1)
    \/ WebhookResume(1)

SpecCalendar == CalendarInit /\ [][CalendarNext]_vars

(***************************************************************************)
(* csvToDb on one table written twice: with the columns in the order of    *)
(* CSV_HEADERS, and with the columns in another order and, or, with one    *)
(* more column that csvToDb does not know.                                 *)
(***************************************************************************)
MaxColumnRows == 2   \* rows of the table

\* rows of eight fields: a plain one, one with blanks around its fields, and one that
\* spells the serial of the first differently
ColumnRows ==
    { << <<"a","1">>, S_valid, formatDate(Day2), formatDate(setFullYearPlusOne(Day2)),
         S_True, S_False, S_False, S_True >>,
      << <<" ","b","2"," ">>, <<>>, <<>>, <<" ">>,
         <<" ">> \o S_True \o <<" ">>, <<"t","r","u","e">>, S_False, <<>> >>,
      << <<"A","1"," ">>, S_expired, formatDate(Day1), <<>>,
         S_False, S_True, S_False, S_False >> }

ColumnTables == UNION { [1..n -> ColumnRows] : n \in 0..MaxColumnRows }

\* orders of the eight columns: that of CSV_HEADERS, its reverse, a rotation, and the
\* first two columns swapped
ColumnOrders ==
    { [k \in 1..8 |-> k],
      [k \in 1..8 |-> 9 - k],
      [k \in 1..8 |-> (k % 8) + 1],
      [k \in 1..8 |-> IF k = 1 THEN 2 ELSE IF k = 2 THEN 1 ELSE k] }

NoColumn == [at |-> 0, name |-> <<>>, field |-> <<>>]

\* one more column, before the first, in the middle or after the last: a name csvToDb
\* does not look up, and the name of the serial column in another case
MoreColumns ==
    {NoColumn} \cup
    [at : {1, 5, 9}, name : { <<"n","o","t","e">>, <<"S","e","r","i","a","l">> },
     field : {S_True}]

permuted(fields, order) == [k \in 1..Len(order) |-> fields[order[k]]]

withColumn(fields, at, x) ==
    IF at = 0 THEN fields
    ELSE SubSeq(fields, 1, at - 1) \o <<x>> \o SubSeq(fields, at, Len(fields))

\* the text of the table with its columns in the given order and with one more column
columnsText(rows, order, more) ==
    join(<<join(withColumn(permuted(CSV_HEADERS, order), more.at, more.name), <<",">>)>>
           \o [i \in 1..Len(rows) |->
                 join(withColumn(permuted(rows[i], order), more.at, more.field), <<",">>)],
         <<LF>>)

ColumnsInit ==
    /\ ProcessIdle
    /\ \E rows \in ColumnTables, order \in ColumnOrders, more \in MoreColumns :
         codec = [pc |-> "encoded", ledger |-> <<>>, text |-> csvText(rows), out |-> <<>>,
                  variant |-> columnsText(rows, order, more), variantOut |-> <<>>]

\* csvToDb on the second text, once the first has been decoded
DecodeVariant ==
    /\ codec.pc = "decoded"
    /\ codec' = [codec EXCEPT !.pc = "compared", !.variantOut = csvToDb(codec.variant)]
    /\ UNCHANGED processVars

ColumnsNext == CodecDecode \/ DecodeVariant

SpecColumns == ColumnsInit /\ [][ColumnsNext]_vars

(***************************************************************************)
(* Checkout requests on their own, with carts that differ in the fields    *)
(* the client sends along with id and options, and with items the price    *)
(* list does not know.                                                     *)
(***************************************************************************)
MaxCheckouts == 2   \* /create-checkout-session requests in a run
MaxCart == 2        \* items of a cart

\* the outcome of the two calls to Stripe: none fails, or customers.create or
\* checkout.sessions.create is rejected, with a statusCode or without one (0)
StripeOutcomes ==
    {[failed |-> "none", statusCode |-> 0]} \cup
    [failed : {"customer", "session"}, statusCode : {0, 429}]

Item(id, options, name, price) == [id |-> id, options |-> options, name |-> name, price |-> price]

MiniOptions(objective, eyepiece) ==
    [NoOptions EXCEPT !.objective = objective, !.eyepiece = eyepiece, !.mount = <<"D","e","s","k"," ","M","o","u","n","t">>]

\* cart items: a feature sent twice with different names and prices, products with
\* known and with unknown options, an id the price list does not have, an empty id,
\* and an id that Object.prototype has
PriceItems ==
    { Item(S_feature_ \o S_ndi, NoOptions, <<"N","D","I">>, 22000),
      Item(S_feature_ \o S_ndi, NoOptions, <<"f","r","e","e">>, 1),
      Item(S_dp_mini_base, MiniOptions(<<"9","9","m","m">>, OptionKey.Screen), Null, 1),
      Item(S_dp_mini_ \o <<"1">>, MiniOptions(OptionKey.k60mm, OptionKey.Full_HD), Null, 1),
      Item(S_dp_mini_ \o <<"1">>, MiniOptions(<<"9","9","m","m">>, OptionKey.Screen), Null, 1),
      Item(S_dp_mini_ \o <<"1">>, MiniOptions(OptionKey.k75mm, Null), Null, 1),
      Item(S_dppro_ \o <<"1">>,
           [NoOptions EXCEPT !.stabilization = OptionKey.Enhanced \o <<" ","S","t","a","b","i","l","i","z","a","t","i","o","n">>,
                             !.controls = OptionKey.Foot_Pedal_Control], Null, 1),
      Item(S_dppro_ \o <<"1">>, NoOptions, Null, 1),
      Item(<<"f","o","o">>, NoOptions, Null, 1),
      Item(<<>>, NoOptions, Null, 1),
      Item(S_constructor, NoOptions, Null, 1) }

Request(cart, customerEmail, serialNumber) ==
    [cart |-> cart, customerEmail |-> customerEmail, serialNumber |-> serialNumber]

Email == <<"e","@","x">>

PriceRequests ==
    { Request(cart, Email, Null) : cart \in UNION { [1..n -> PriceItems] : n \in 1..MaxCart } }
    \cup { Request(<<>>, Email, Null),
           Request(<<Item(S_feature_ \o S_ndi, NoOptions, Null, 1)>>, Null, Null) }

\* lines 239-295
CreateCheckoutSession(req, stripe) ==
    /\ processAlive
    /\ Len(checkout) < MaxCheckouts
    /\ checkout' = Append(checkout, checkoutHandled(req, stripe))
    /\ UNCHANGED <<licenseDatabase, currentGitSha, remote, load, hook, queryRes, extWrites,
                   tokenSrc, observed, issue, acts, codec>>

PriceNext == \E req \in PriceRequests, stripe \in StripeOutcomes : CreateCheckoutSession(req, stripe)

SpecPrice == CalendarInit /\ [][PriceNext]_vars

(***************************************************************************)
(* Checkouts of features for a serial, and the webhook requests by which   *)
(* Stripe reports the sessions they created as paid.                       *)
(***************************************************************************)
\* carts: one feature; a license and two features; a license alone; one feature
\* twice; a feature the price list does not have
FeatureCarts ==
    { << Item(S_feature_ \o S_ndi, NoOptions, Null, 1) >>,
      << Item(S_license_base, NoOptions, Null, 1),
         Item(S_feature_ \o S_parallax, NoOptions, Null, 1),
         Item(S_feature_ \o S_3d_models, NoOptions, Null, 1) >>,
      << Item(S_license_base, NoOptions, Null, 1) >>,
      << Item(S_feature_ \o S_ndi, NoOptions, Null, 1),
         Item(S_feature_ \o S_ndi, NoOptions, Null, 1) >>,
      << Item(S_feature_ \o S_gold, NoOptions, Null, 1) >> }

\* values of serialNumber: with blanks and in lower case, and none
FeatureRequests ==
    { Request(cart, Email, serial) : cart \in FeatureCarts,
                                     serial \in { <<" ","a","1">>, <<"A","1"," ">>, Null } }

\* a webhook request for a session that a checkout created
StripeDeliver(h) ==
    \E i \in 1..Len(checkout) :
        /\ checkout[i].session.created
        /\ WebhookReceive(h, sessionEvent(checkout[i].session), Day1)

CheckoutNext ==
    \/ \E req \in FeatureRequests, failed \in {"none", "session"} :
         CreateCheckoutSession(req, [failed |-> failed, statusCode |-> 0])
    \/ \E h \in Handlers : StripeDeliver(h)
    \/ \E h \in Handlers : GitHubServePut(h)
    \/ \E h \in Handlers : WebhookResume(h)

SpecCheckout == CalendarInit /\ [][CheckoutNext]_vars

(***************************************************************************)
(* Properties                                                              *)
(***************************************************************************)
\* the PUT of handler h has been issued
Issued(h) == issue[h].src # "none"

\* the commit of handler h has been accepted by GitHub
Accepted(h) == issue[h].accepted

\* the commit attempt of handler h has failed and the handler has gone on
Failed(h) == hook[h].pc = "done" /\ hook[h].reply.kind \in {"rejected", "neterr"}

\* equality of ledgers as maps: same serials, and per serial the same status, dates
\* and set of features
SameRecord(r1, r2) ==
    /\ r1.status = r2.status
    /\ r1.activation_date = r2.activation_date
    /\ r1.expires = r2.expires
    /\ Range(r1.activeFeatures) = Range(r2.activeFeatures)

SameLedger(a, b) ==
    /\ Keys(a) = Keys(b)
    /\ \A serial \in Keys(a) : SameRecord(Get(a, serial), Get(b, serial))

C2_NoShaOnlyAfterNotFound ==
    \A h \in Handlers :
        Issued(h) => (hook[h].req.sha = NoSha <=> issue[h].src = "notfound")

\* C2 (amended): a PUT is issued without sha exactly when the store holds no sha,
\* which is the case while the load is in flight, after a load that returned NotFound
\* and after a load that failed, until a commit succeeds; after a load that succeeded
\* or a commit that succeeded it carries the sha held
C2_NoShaIffNoShaHeld ==
    \A h \in Handlers :
        Issued(h) =>
            /\ hook[h].req.sha = NoSha <=> issue[h].src \in {"init", "notfound", "error"}
            /\ hook[h].req.sha = issue[h].held

\* C2 witness: PUTs issued without sha after a failed load and with sha after a commit
C2_Witness ==
    \E h, g \in Handlers :
        /\ Issued(h) /\ issue[h].src = "error" /\ hook[h].req.sha = NoSha
        /\ Issued(g) /\ issue[g].src = "commit" /\ hook[g].req.sha # NoSha

\* the activations applied so far, as positions of acts
Acts == {k \in 1..Len(acts) : acts[k].kind = "act"}

\* the latest activation applied
LastAct == acts[CHOOSE k \in Acts : \A j \in Acts : j <= k]

\* C3: once the commit of an activation has failed (rejected, or a transport error),
\* a query for any serial returns the record as the latest applied activation left it
C3_CommitFailureIsolation ==
    (\E h \in Handlers : Failed(h)) =>
        \A raw \in QuerySerials :
            checkLicense(licenseDatabase, raw) = checkLicense(LastAct.db, raw)

\* C4: when the commit issued last was accepted, the file still holds it and no
\* activation has been applied since, decoding the file gives the in-memory ledger
C4_RestartEquivalence ==
    (/\ Acts # {}
     /\ Accepted(LastAct.h)
     /\ remote.sha = issue[LastAct.h].newSha)
        => SameLedger(csvToDb(remote.content), licenseDatabase)

\* C5: for every ledger whose serials hold no line break, decoding the encoding gives
\* the ledger back (same serials, and per serial the same status, dates and features)
C5_RoundTrip ==
    (/\ codec.pc = "decoded"
     /\ \A serial \in Keys(codec.ledger) : LF \notin Range(serial) /\ CR \notin Range(serial))
        => SameLedger(codec.out, codec.ledger)

\* C6: every accepted commit stored the encoding of the whole ledger as it was when
\* the commit was issued, and that ledger holds every activation applied up to then
C6_SelfHealing ==
    \A h \in Handlers :
        Accepted(h) =>
            /\ hook[h].req.content = dbToCsv(issue[h].db)
            /\ \A k \in Acts :
                 k <= issue[h].nActs =>
                    /\ HasKey(issue[h].db, acts[k].serial)
                    /\ Range(acts[k].purchased)
                         \subseteq Range(Get(issue[h].db, acts[k].serial).activeFeatures)

\* C7: a handler given an authenticated checkout.session.completed event answers
\* {received: true} and nothing else, whether its commit succeeded, was rejected or
\* failed in transport
C7_AlwaysAcknowledged ==
    \A h \in Handlers :
        hook[h].ev.sig /\ hook[h].ev.type = Completed =>
            /\ hook[h].res \in {"none", "received"}
            /\ hook[h].pc = "done" => hook[h].res = "received"

\* C7 witness: one handler acknowledged after a rejected commit and another after a
\* transport error
C7_Witness ==
    \E h, g \in Handlers :
        /\ hook[h].pc = "done" /\ hook[h].reply.kind = "rejected" /\ hook[h].res = "received"
        /\ hook[g].pc = "done" /\ hook[g].reply.kind = "neterr" /\ hook[g].res = "received"

\* C8: when a second activation of a serial is applied while the handler of the first
\* is still awaiting its commit, the record after the second has status valid and the
\* features the record had before the first united with both purchases
C8_NoLostUpdate ==
    \A k, m \in Acts :
        (/\ k < m
         /\ acts[k].serial = acts[m].serial
         /\ acts[k].h \in acts[m].inFlight
         /\ \A j \in Acts : k < j /\ j < m => acts[j].serial # acts[k].serial)
            => LET r == Get(acts[m].db, acts[m].serial)
               IN /\ r.status = S_valid
                  /\ Range(r.activeFeatures) = Range(acts[k].pre) \cup Range(acts[k].purchased)
                                                 \cup Range(acts[m].purchased)

\* the record an activation leaves: status, both dates and features all written
CompleteAfter(r, a) ==
    /\ r.status = S_valid
    /\ r.activation_date = formatDate(a.today)
    /\ r.expires = formatDate(setFullYearPlusOne(a.today))
    /\ Range(r.activeFeatures) = Range(a.pre) \cup Range(a.purchased)

\* C9: every record a query returned is a whole record: one the load decoded, or one
\* an activation left with status, both dates and the features all written
C9_QueryAtomic ==
    \A i \in 1..Len(queryRes) :
        queryRes[i].status = 200 =>
            LET serial == canonicalSerial(queryRes[i].serial)
            IN \E k \in 1..Len(acts) :
                 IF acts[k].kind = "load"
                 THEN HasKey(acts[k].db, serial) /\ queryRes[i].body = Get(acts[k].db, serial)
                 ELSE acts[k].serial = serial /\ CompleteAfter(queryRes[i].body, acts[k])

\* C9 witness: a query returned an activated record while the handler that wrote it
\* was still awaiting its commit
C9_Witness ==
    \E i \in 1..Len(queryRes), h \in Handlers :
        /\ queryRes[i].status = 200
        /\ queryRes[i].body.status = S_valid
        /\ hook[h].pc = "awaitPut"
        /\ canonicalSerial(hook[h].ev.serial_number) = canonicalSerial(queryRes[i].serial)

\* handler h takes an authenticated checkout.session.completed event whose serial is
\* missing or canonicalizes to the empty string
TakesEmptySerial(h) ==
    /\ hook[h].pc = "idle"
    /\ hook'[h].pc # "idle"
    /\ hook'[h].ev.sig
    /\ hook'[h].ev.type = Completed
    /\ canonicalSerial(hook'[h].ev.serial_number) = <<>>

\* C10: such an event is acknowledged with {received: true} and changes nothing: the
\* ledger and the sha are as before and no PUT is issued
C10_EmptySerialNoOp ==
    [][\A h \in Handlers :
          TakesEmptySerial(h) =>
             /\ hook'[h].res = "received"
             /\ hook'[h].pc = "done"
             /\ hook'[h].req = NoReq
             /\ licenseDatabase' = licenseDatabase
             /\ currentGitSha' = currentGitSha
             /\ remote' = remote
             /\ issue' = issue]_vars

\* C10 witness: an event without serial and an event with a blank serial were both
\* acknowledged
C10_Witness ==
    \E h, g \in Handlers :
        /\ hook[h].ev.sig /\ hook[h].ev.type = Completed /\ hook[h].ev.serial_number = Null
        /\ hook[h].res = "received"
        /\ hook[g].ev.sig /\ hook[g].ev.type = Completed /\ hook[g].ev.serial_number = <<" ">>
        /\ hook[g].res = "received"

\* the continuation of the load runs in this step, GitHub having answered kind
LoadCompletes(kind) == load.pc = "replied" /\ load.reply.kind = kind /\ load'.pc = "done"

\* C11: a load whose GET was answered 404 raises no error and leaves the store with
\* the empty ledger and no sha
C11_LoadNotFound ==
    [][LoadCompletes("notfound") =>
          /\ ~load'.threw
          /\ licenseDatabase' = <<>>
          /\ currentGitSha' = NoSha]_vars

\* C11 witness: the load found no file and completed after an activation had been
\* applied, and the store holds the empty ledger and no sha
C11_Witness ==
    /\ load.pc = "done" /\ load.reply.kind = "notfound" /\ ~load.threw
    /\ Len(acts) >= 2 /\ acts[Len(acts)].kind = "load"
    /\ licenseDatabase = <<>> /\ currentGitSha = NoSha

\* C12: a load whose GET failed (transport error or a status other than 200 and 404)
\* raises no error and leaves the store with the empty ledger and no sha (until an
\* activation writes the ledger and a commit assigns the sha); afterwards the process
\* is alive, and every query and webhook request it has handled got its response
C12_LoadFailureContained ==
    /\ tokenSrc = "error" => currentGitSha = NoSha
    /\ load.pc = "done" /\ load.reply.kind = "error" =>
          /\ ~load.threw
          /\ processAlive
          /\ acts[Len(acts)].kind = "load" => licenseDatabase = <<>>
          /\ \A i \in 1..Len(queryRes) : queryRes[i].status \in {200, 404}
          /\ \A h \in Handlers : hook[h].pc = "done" => hook[h].res \in {"400", "received"}

\* C12 witness: after a failed load a query returned an activated record and the
\* commit of a webhook request was accepted and acknowledged
C12_Witness ==
    /\ load.pc = "done" /\ load.reply.kind = "error"
    /\ \E k \in 1..Len(acts) :
         /\ acts[k].kind = "load"
         /\ \E m \in Acts : m > k /\ Accepted(acts[m].h) /\ hook[acts[m].h].res = "received"
    /\ \E i \in 1..Len(queryRes) : queryRes[i].status = 200 /\ queryRes[i].body.status = S_valid

\* the array holds no element twice
NoDuplicates(arr) == \A i, j \in 1..Len(arr) : arr[i] = arr[j] => i = j

\* the canonical form of a serial as the specification defines it: upper case, trimmed
Canonical(raw) == trim(toUpperCase(IF raw = Null THEN <<>> ELSE raw))

\* the serial as the event of activation a carried it
RawSerial(a) == hook[a.h].ev.serial_number

\* C13: when two activations are applied one right after the other to serials with
\* the same canonical form, with the same purchased features, the record's
\* activeFeatures after the second are what they were after the first: nothing is
\* added and no feature is held twice
C13_IdempotentMerge ==
    \A k \in Acts :
        (/\ k + 1 \in Acts
         /\ Canonical(RawSerial(acts[k])) = Canonical(RawSerial(acts[k + 1]))
         /\ Range(acts[k].purchased) = Range(acts[k + 1].purchased))
            => LET serial == Canonical(RawSerial(acts[k]))
               IN /\ HasKey(acts[k].db, serial) /\ HasKey(acts[k + 1].db, serial)
                  /\ Get(acts[k + 1].db, serial).activeFeatures
                       = Get(acts[k].db, serial).activeFeatures
                  /\ NoDuplicates(Get(acts[k + 1].db, serial).activeFeatures)

\* C13 witness: two such activations whose serials were spelled differently and were
\* applied on different days
C13_Witness ==
    \E k \in Acts :
        /\ k + 1 \in Acts
        /\ RawSerial(acts[k]) # RawSerial(acts[k + 1])
        /\ Canonical(RawSerial(acts[k])) = Canonical(RawSerial(acts[k + 1]))
        /\ acts[k].purchased = acts[k + 1].purchased /\ acts[k].purchased # <<>>
        /\ acts[k].today # acts[k + 1].today

\* spellings of serials: those the events and the queries carry, and their canonical forms
Spellings ==
    LET sent == {x.ev.serial_number : x \in LedgerDeliveries} \cup LedgerQuerySerials
    IN sent \cup {Canonical(raw) : raw \in sent}

\* C14: in the ledger an activation leaves, exactly one record belongs to the canonical
\* form of the serial the event carried, and a query under any spelling with that
\* canonical form returns this record (stated of the activation applied last, which
\* every activation is in the state it leads to)
C14_Canonicalization ==
    Len(acts) > 0 /\ acts[Len(acts)].kind = "act" =>
        LET serial == Canonical(RawSerial(acts[Len(acts)]))
            db == acts[Len(acts)].db
        IN /\ db = licenseDatabase
           /\ Cardinality({i \in 1..Len(db) : Canonical(db[i].serial) = serial}) = 1
           /\ HasKey(db, serial)
           /\ \A t \in Spellings :
                Canonical(t) = serial =>
                    /\ checkLicense(db, t).status = 200
                    /\ checkLicense(db, t).body = Get(db, serial)

\* C14 witness: a serial was activated under one spelling and a query under another
\* spelling returned the record the activation left
C14_Witness ==
    \E k \in Acts, i \in 1..Len(queryRes) :
        /\ RawSerial(acts[k]) # queryRes[i].serial
        /\ RawSerial(acts[k]) # Canonical(RawSerial(acts[k]))
        /\ Canonical(queryRes[i].serial) = Canonical(RawSerial(acts[k]))
        /\ queryRes[i].status = 200
        /\ queryRes[i].body = Get(acts[k].db, Canonical(RawSerial(acts[k])))

\* the ledger as it was when entry k of acts was applied: licenseDatabase is assigned
\* by the load and by activations only, and acts records each of them
PreLedger(k) == IF k = 1 THEN <<>> ELSE acts[k - 1].db

\* the dates one calendar year after t: the same day and month of the next year; for
\* 29 February, which the next year lacks, 28 February or 1 March
OneYearAfter(t) ==
    IF t.m = 2 /\ t.d = 29 /\ ~isLeapYear(t.y + 1)
    THEN {[y |-> t.y + 1, m |-> 2, d |-> 28], [y |-> t.y + 1, m |-> 3, d |-> 1]}
    ELSE {[y |-> t.y + 1, m |-> t.m, d |-> t.d]}

\* C15: the record an activation leaves has status valid, today as activation date
\* and today plus one year as expiration date, whether the serial had no record or a
\* record of any status; when the serial had no record, its features are exactly the
\* purchased ones
C15_ActivationResult ==
    \A k \in Acts :
        LET serial == Canonical(RawSerial(acts[k]))
            r == Get(acts[k].db, serial)
        IN /\ HasKey(acts[k].db, serial)
           /\ r.status = S_valid
           /\ r.activation_date = formatDate(acts[k].today)
           /\ \E e \in OneYearAfter(acts[k].today) : r.expires = formatDate(e)
           /\ ~HasKey(PreLedger(k), serial) =>
                 /\ Range(r.activeFeatures) = Range(acts[k].purchased)
                 /\ NoDuplicates(r.activeFeatures)

\* C15 witness: one activation created the record of its serial and another was
\* applied to a loaded record whose status was expired
C15_Witness ==
    \E k, m \in Acts :
        /\ ~HasKey(PreLedger(k), acts[k].serial)
        /\ acts[k].purchased # <<>>
        /\ HasKey(PreLedger(m), acts[m].serial)
        /\ Get(PreLedger(m), acts[m].serial).status = S_expired
        /\ Get(acts[m].db, acts[m].serial).status = S_valid

\* the features the record of serial holds in ledger db, none when it has no record
FeaturesIn(db, serial) == IF HasKey(db, serial) THEN Range(Get(db, serial).activeFeatures) ELSE {}

\* C16: an activation leaves in the record the features it held before united with
\* the purchased ones, so none is removed; after two activations of a serial applied
\* one right after the other the record holds the features it held before the first
\* united with both purchases
C16_FeaturesAccumulate ==
    \A k \in Acts :
        LET serial == Canonical(RawSerial(acts[k]))
        IN /\ FeaturesIn(PreLedger(k), serial) \subseteq FeaturesIn(acts[k].db, serial)
           /\ FeaturesIn(acts[k].db, serial)
                = FeaturesIn(PreLedger(k), serial) \cup Range(acts[k].purchased)
           /\ (k + 1 \in Acts /\ Canonical(RawSerial(acts[k + 1])) = serial) =>
                 FeaturesIn(acts[k + 1].db, serial)
                   = FeaturesIn(PreLedger(k), serial) \cup Range(acts[k].purchased)
                       \cup Range(acts[k + 1].purchased)

\* C16 witness: two activations of a loaded record that held a feature, the first
\* adding one feature and the second nothing new, and the record holds both
C16_Witness ==
    \E k \in Acts :
        /\ k + 1 \in Acts
        /\ acts[k].serial = acts[k + 1].serial
        /\ FeaturesIn(PreLedger(k), acts[k].serial) # {}
        /\ ~(Range(acts[k].purchased) \subseteq FeaturesIn(PreLedger(k), acts[k].serial))
        /\ Cardinality(FeaturesIn(acts[k + 1].db, acts[k].serial)) = 2

\* C18: every key of licenseDatabase is a canonical serial: not empty, equal to its
\* upper-case form, without leading or trailing whitespace
C18_CanonicalKeys ==
    \A serial \in Keys(licenseDatabase) :
        /\ serial # <<>>
        /\ serial = toUpperCase(serial)
        /\ serial = trim(serial)

\* C18 witness: the ledger holds a key the load decoded from a row whose serial was in
\* lower case between blanks and a key an activation made of such a serial
C18_Witness ==
    /\ load.pc = "done" /\ load.reply.kind = "ok"
    /\ <<"A","1">> \in Keys(licenseDatabase)
    /\ \E k \in Acts :
         /\ RawSerial(acts[k]) = <<" ","X","z"," ">>
         /\ acts[k].serial \in Keys(licenseDatabase)

\* the features of the price list
KnownFeatures == {S_3d_models, S_parallax, S_image_addition, S_ndi}

\* C19: the activeFeatures of every record hold features of the price list only
C19_ClosedFeatureSet ==
    \A serial \in Keys(licenseDatabase) :
        Range(Get(licenseDatabase, serial).activeFeatures) \subseteq KnownFeatures

\* C20: the activeFeatures of no record hold a feature twice, and an activation that
\* purchases only features the record holds leaves its activeFeatures as they are
C20_TrueSet ==
    /\ \A serial \in Keys(licenseDatabase) :
         NoDuplicates(Get(licenseDatabase, serial).activeFeatures)
    /\ \A k \in Acts :
         (/\ HasKey(PreLedger(k), acts[k].serial)
          /\ Range(acts[k].purchased) \subseteq FeaturesIn(PreLedger(k), acts[k].serial))
            => Get(acts[k].db, acts[k].serial).activeFeatures
                 = Get(PreLedger(k), acts[k].serial).activeFeatures

\* C20 witness: a purchase named a feature twice, a later purchase named it again,
\* and the record holds it once
C20_Witness ==
    \E k \in Acts :
        /\ k + 1 = Len(acts) /\ k + 1 \in Acts
        /\ acts[k].serial = acts[k + 1].serial
        /\ ~NoDuplicates(acts[k].purchased)
        /\ acts[k + 1].purchased = acts[k].purchased
        /\ licenseDatabase = acts[k + 1].db
        /\ Len(Get(licenseDatabase, acts[k].serial).activeFeatures) = 1

\* the lines of a text that are not empty, and the fields of the first of them
TextLines(text) == filterBoolean(splitLines(text))

\* the first line of the text has no field that reads serial once trimmed
LacksSerialColumn(text) ==
    LET first == split(TextLines(text)[1], ",")
    IN \A i \in 1..Len(first) : trim(first[i]) # H_serial

\* C17: csvToDb returns the empty ledger for the empty text, for a text that is a
\* single line, and for a text whose first line has no serial column, whatever lines
\* follow it
C17_DecodeNeverFails ==
    (/\ codec.pc = "decoded"
     /\ \/ codec.text = <<>>
        \/ Len(TextLines(codec.text)) <= 1
        \/ LacksSerialColumn(codec.text))
        => codec.out = <<>>

\* C17 witness: a text whose first line has no serial column and which has two more
\* lines was decoded to the empty ledger
C17_Witness ==
    /\ codec.pc = "decoded"
    /\ Len(TextLines(codec.text)) = 3
    /\ LacksSerialColumn(codec.text)
    /\ codec.out = <<>>

\* C21: once an activation has been applied, a query for its serial finds a record
\* whose features include the purchased ones, in every later state, however the
\* activations interleave with the startup load
C21_ActivationNeverLost ==
    \A k \in Acts :
        LET res == checkLicense(licenseDatabase, acts[k].serial)
        IN /\ res.status = 200
           /\ Range(acts[k].purchased) \subseteq Range(res.body.activeFeatures)

\* no PUT of this process is awaiting its answer or its continuation
NoCommitInFlight == \A h \in Handlers : hook[h].pc \in {"idle", "done"}

\* C22: with no other writer, once the load has fetched the file or found none and
\* with every commit so far answered by success or conflict, whenever no commit is in
\* flight currentGitSha is the sha of the file (none exactly when there is no file),
\* so that the next PUT would be accepted
C22_TokenTracksRemote ==
    (/\ extWrites = 0
     /\ load.pc = "done" /\ load.reply.kind \in {"ok", "notfound"}
     /\ \A h \in Handlers : hook[h].reply.kind \in {"none", "ok", "rejected"}
     /\ NoCommitInFlight)
        => /\ currentGitSha = remote.sha
           /\ currentGitSha = NoSha <=> ~remote.exists
           /\ putAccepted([content |-> <<>>, sha |-> putSha(currentGitSha)])

\* C23: of two PUTs issued while the store held the same sha (or both while it held
\* none), GitHub accepts at most one
C23_AtMostOneAccepted ==
    \A h, g \in Handlers :
        (h # g /\ Issued(h) /\ Issued(g) /\ issue[h].held = issue[g].held)
            => ~(Accepted(h) /\ Accepted(g))

\* handler h goes on in this step after its PUT failed (conflict or transport error)
ResumesAfterFailure(h) ==
    /\ hook[h].pc = "putReplied"
    /\ hook[h].reply.kind \in {"rejected", "neterr"}
    /\ hook'[h].pc # "putReplied"

\* C24: a handler issues one PUT and no other: after the answer it ends, and once it
\* has ended it stays so; when the PUT failed, the step in which the handler goes on
\* leaves licenseDatabase and currentGitSha as they were and the file alone
C24_FailedCommitDropped ==
    [][\A h \in Handlers :
          /\ hook[h].pc = "putReplied" /\ hook'[h].pc # "putReplied" => hook'[h].pc = "done"
          /\ hook[h].pc = "done" => hook'[h] = hook[h]
          /\ hook'[h].pc = "awaitPut" => hook[h].pc \in {"idle", "awaitPut"}
          /\ ResumesAfterFailure(h) =>
                /\ licenseDatabase' = licenseDatabase
                /\ currentGitSha' = currentGitSha
                /\ remote' = remote
                /\ hook'[h].req = hook[h].req]_vars

\* C24 witness: a handler has ended after a conflict and another after a transport
\* error, and the ledger still holds the records both wrote
C24_Witness ==
    \E h, g \in Handlers :
        /\ Failed(h) /\ hook[h].reply.kind = "rejected"
        /\ Failed(g) /\ hook[g].reply.kind = "neterr"
        /\ HasKey(licenseDatabase, canonicalSerial(hook[h].ev.serial_number))
        /\ HasKey(licenseDatabase, canonicalSerial(hook[g].ev.serial_number))
        /\ currentGitSha = issue[g].held

\* C25: when a handler goes on after its PUT was accepted, currentGitSha becomes the
\* sha GitHub returned for that PUT; when the load goes on after a GET that returned
\* the file, licenseDatabase becomes csvToDb of the content fetched and currentGitSha
\* the sha fetched
C25_TokenUpdates ==
    [][/\ \A h \in Handlers :
            (hook[h].pc = "putReplied" /\ hook[h].reply.kind = "ok" /\ hook'[h].pc = "done")
                => /\ currentGitSha' = hook[h].reply.sha
                   /\ hook[h].reply.sha = issue[h].newSha
       /\ LoadCompletes("ok") =>
             /\ licenseDatabase' = csvToDb(load.reply.content)
             /\ currentGitSha' = load.reply.sha]_vars

\* C25 witness: the load stored the ledger and the sha of the file it fetched, and a
\* commit accepted afterwards replaced the sha by the one GitHub returned for it
C25_Witness ==
    /\ load.pc = "done" /\ load.reply.kind = "ok"
    /\ Len(acts) > 0 /\ acts[1].kind = "load" /\ acts[1].db = csvToDb(load.reply.content)
    /\ acts[1].db # <<>>
    /\ \E h \in Handlers :
         /\ hook[h].pc = "done" /\ hook[h].reply.kind = "ok"
         /\ issue[h].held = load.reply.sha
         /\ currentGitSha = hook[h].reply.sha
         /\ currentGitSha # load.reply.sha

\* handler h issues its PUT in this step
IssuesPut(h) == hook[h].pc = "idle" /\ hook'[h].pc = "awaitPut"

\* C26: in the step in which a handler issues its PUT, before any answer, the ledger
\* already holds the activated record, so that a query returns it: status valid and
\* the purchased features; and the step is taken whether or not the PUT of another
\* handler is awaiting its answer, which it leaves awaiting
C26_CommitNonBlocking ==
    [][\A h \in Handlers :
          IssuesPut(h) =>
             LET res == checkLicense(licenseDatabase', hook'[h].ev.serial_number)
             IN /\ res.status = 200
                /\ res.body.status = S_valid
                /\ Range(featuresPurchased(hook'[h].ev.features_purchased))
                     \subseteq Range(res.body.activeFeatures)
                /\ hook'[h].req.content = dbToCsv(licenseDatabase')
                /\ \A g \in Handlers : g # h => hook'[g] = hook[g]]_vars

\* C26 witness: the PUTs of two handlers are both awaiting their answers, the second
\* issued while the first was awaiting, and a query has returned the record the
\* second wrote
C26_Witness ==
    \E h, g \in Handlers :
        /\ h # g
        /\ hook[h].pc = "awaitPut" /\ hook[g].pc = "awaitPut"
        /\ \E m \in Acts : acts[m].h = g /\ h \in acts[m].inFlight
        /\ \E i \in 1..Len(queryRes) :
             /\ queryRes[i].status = 200
             /\ canonicalSerial(queryRes[i].serial) = canonicalSerial(hook[g].ev.serial_number)
             /\ queryRes[i].body = Get(issue[g].db, canonicalSerial(hook[g].ev.serial_number))

\* C27: when GitHub answers every PUT, a handler that has issued its PUT sooner or
\* later sends {received: true}, and it has not sent it while the PUT is unanswered
\* (events that lead to no PUT are answered in the step that takes them)
C27_EventuallyAcknowledged ==
    /\ \A h \in Handlers : (hook[h].pc = "awaitPut") ~> (hook[h].res = "received")
    /\ [](\A h \in Handlers :
             /\ Issued(h) /\ hook[h].res # "none" => hook[h].reply.kind # "none"
             /\ hook[h].pc = "done" => hook[h].res # "none")

\* C27 witness: one handler has acknowledged after its PUT was answered while the
\* PUT of another handler is unanswered and that handler has not acknowledged
C27_Witness ==
    \E h, g \in Handlers :
        /\ Issued(h) /\ hook[h].reply.kind # "none" /\ hook[h].res = "received"
        /\ hook[g].pc = "awaitPut" /\ hook[g].res = "none"

\* handler h takes in this step an event whose signature check fails or whose type
\* is not checkout.session.completed
TakesOtherEvent(h) ==
    /\ hook[h].pc = "idle"
    /\ hook'[h].pc # "idle"
    /\ ~hook'[h].ev.sig \/ hook'[h].ev.type # Completed

\* C28: a query, an event whose signature check fails and an event of another type
\* leave licenseDatabase, currentGitSha and the file as they are and issue no PUT;
\* among the requests, only a checkout.session.completed event with a valid signature
\* and a non-empty canonical serial changes licenseDatabase or issues a PUT
C28_OnlyActivationMutates ==
    [][/\ queryRes' # queryRes =>
             /\ licenseDatabase' = licenseDatabase
             /\ currentGitSha' = currentGitSha
             /\ remote' = remote
             /\ hook' = hook
       /\ \A h \in Handlers :
             /\ TakesOtherEvent(h) =>
                   /\ licenseDatabase' = licenseDatabase
                   /\ currentGitSha' = currentGitSha
                   /\ remote' = remote
                   /\ hook'[h].pc = "done" /\ hook'[h].req = NoReq
                   /\ issue' = issue
             /\ IssuesPut(h) =>
                   /\ hook'[h].ev.sig
                   /\ hook'[h].ev.type = Completed
                   /\ canonicalSerial(hook'[h].ev.serial_number) # <<>>
       /\ licenseDatabase' # licenseDatabase =>
             \/ \E h \in Handlers : IssuesPut(h)
             \/ load.pc = "replied" /\ load'.pc = "done"]_vars

\* C28 witness: an event with a bad signature and an event of another type, both
\* naming a serial and a feature, were refused and acknowledged, a query was
\* answered, and the ledger and the sha are those the load left
C28_Witness ==
    /\ \E h, g \in Handlers :
         /\ ~hook[h].ev.sig /\ hook[h].ev.serial_number # Null /\ hook[h].res = "400"
         /\ hook[g].ev.sig /\ hook[g].ev.type # Completed /\ hook[g].ev.serial_number # Null
         /\ hook[g].res = "received"
    /\ Len(queryRes) > 0 /\ queryRes[1].status = 200
    /\ load.pc = "done" /\ load.reply.kind = "ok"
    /\ licenseDatabase = csvToDb(load.reply.content)
    /\ currentGitSha = load.reply.sha
    /\ remote.sha = load.reply.sha

\* the record activation a left for its serial
RecordOf(a) == Get(a.db, a.serial)

\* C29 (as claimed): the expiration date of every activation has the year of the
\* activation date plus one and the same month and day, also on 29 February
C29_MonthAndDayPreserved ==
    \A k \in Acts :
        RecordOf(acts[k]).expires
          = formatDate([y |-> acts[k].today.y + 1, m |-> acts[k].today.m, d |-> acts[k].today.d])

\* C29 (amended): the activation date is today and the expiration date has the year
\* plus one and the same month and day, except for an activation on 29 February,
\* whose expiration date is 1 March of the next year
C29_OneYearLater ==
    \A k \in Acts :
        LET t == acts[k].today
        IN /\ RecordOf(acts[k]).activation_date = formatDate(t)
           /\ RecordOf(acts[k]).expires
                = IF t.m = 2 /\ t.d = 29
                  THEN formatDate([y |-> t.y + 1, m |-> 3, d |-> 1])
                  ELSE formatDate([y |-> t.y + 1, m |-> t.m, d |-> t.d])

\* C29 witness: an activation on 29 February 2024 expires on 2025-03-01
C29_Witness ==
    \E k \in Acts :
        /\ acts[k].today = [y |-> 2024, m |-> 2, d |-> 29]
        /\ RecordOf(acts[k]).expires = <<"2","0","2","5","-","0","3","-","0","1">>

\* the field of a row under the header column named name; Null when the header has no
\* such column or the row is too short to have the field
FieldOf(text, i, name) ==
    LET header == split(TextLines(text)[1], ",")
        cols == split(TextLines(text)[i], ",")
        at == headerIndex(header, name)
    IN IF at = 0 \/ at > Len(cols) THEN Null ELSE cols[at]

\* row i of the text gives the record of its serial: the serial is not blank and no
\* later row has the same canonical serial
GivesRecord(text, i) ==
    /\ Canonical(FieldOf(text, i, H_serial)) # <<>>
    /\ \A j \in (i + 1)..Len(TextLines(text)) :
         Canonical(FieldOf(text, j, H_serial)) # Canonical(FieldOf(text, i, H_serial))

\* the status field of row i is missing, empty or made of whitespace only
BlankStatus(text, i) ==
    \/ FieldOf(text, i, H_status) = Null
    \/ trim(FieldOf(text, i, H_status)) = <<>>

\* C30: csvToDb gives the status not-active to the record of every row whose status
\* field is missing, empty or made of whitespace only
C30_BlankStatusNotActive ==
    codec.pc = "decoded" =>
        \A i \in 2..Len(TextLines(codec.text)) :
            GivesRecord(codec.text, i) /\ BlankStatus(codec.text, i) =>
                /\ HasKey(codec.out, Canonical(FieldOf(codec.text, i, H_serial)))
                /\ Get(codec.out, Canonical(FieldOf(codec.text, i, H_serial))).status
                     = S_not_active

\* the feature columns of the file and the feature each of them stands for
FeatureColumns ==
    << <<H_feature_3d_models, S_3d_models>>, <<H_feature_parallax, S_parallax>>,
       <<H_feature_image_addition, S_image_addition>>, <<H_feature_ndi, S_ndi>> >>

\* C31: csvToDb grants a feature to the record of a row exactly when the field of the
\* feature's column is the token True, character for character
C31_ExactTrue ==
    codec.pc = "decoded" =>
        \A i \in 2..Len(TextLines(codec.text)) :
            GivesRecord(codec.text, i) =>
                /\ HasKey(codec.out, Canonical(FieldOf(codec.text, i, H_serial)))
                /\ \A k \in 1..Len(FeatureColumns) :
                     includes(Get(codec.out, Canonical(FieldOf(codec.text, i, H_serial)))
                                  .activeFeatures, FeatureColumns[k][2])
                       <=> FieldOf(codec.text, i, FeatureColumns[k][1]) = S_True

\* the text made of the first line of the text and of its row i alone
RowAlone(text, i) == join(<<TextLines(text)[1], TextLines(text)[i]>>, <<LF>>)

\* C33: the keys of the ledger csvToDb returns are the serials of the rows, upper-cased
\* and trimmed, without the empty one; the ledger holds one record per key; and the
\* record of a key is the one that the last row with that serial gives on its own
C33_OneRecordPerSerial ==
    codec.pc = "decoded" =>
        LET rows == 2..Len(TextLines(codec.text))
        IN /\ Keys(codec.out)
                = {Canonical(FieldOf(codec.text, i, H_serial)) : i \in rows} \ {<<>>}
           /\ Len(codec.out) = Cardinality(Keys(codec.out))
           /\ \A i \in rows :
                GivesRecord(codec.text, i) =>
                    Get(codec.out, Canonical(FieldOf(codec.text, i, H_serial)))
                      = Get(csvToDb(RowAlone(codec.text, i)),
                            Canonical(FieldOf(codec.text, i, H_serial)))

\* C33 witness: a text with two rows that spell the same serial differently and give
\* different records was decoded to a ledger of one record, that of the second row
C33_Witness ==
    /\ codec.pc = "decoded"
    /\ Len(TextLines(codec.text)) = 3
    /\ FieldOf(codec.text, 2, H_serial) # FieldOf(codec.text, 3, H_serial)
    /\ Canonical(FieldOf(codec.text, 2, H_serial)) = Canonical(FieldOf(codec.text, 3, H_serial))
    /\ Canonical(FieldOf(codec.text, 3, H_serial)) # <<>>
    /\ csvToDb(RowAlone(codec.text, 2)) # csvToDb(RowAlone(codec.text, 3))
    /\ Len(codec.out) = 1
    /\ codec.out = csvToDb(RowAlone(codec.text, 3))

\* C32: csvToDb returns the same ledger for a table written with the columns in the
\* order of CSV_HEADERS and for the same table written with its columns, header and
\* fields alike, in another order or with one more, unknown column
C32_ColumnsByName ==
    codec.pc = "compared" => codec.variantOut = codec.out

\* C32 witness: two texts with different first lines, one of them with the columns in
\* another order and an unknown column, were decoded to the same ledger of two records
C32_Witness ==
    /\ codec.pc = "compared"
    /\ Len(split(TextLines(codec.variant)[1], ",")) = Len(CSV_HEADERS) + 1
    /\ trim(split(TextLines(codec.variant)[1], ",")[1]) # H_serial
    /\ trim(split(TextLines(codec.variant)[1], ",")[2]) # H_serial
    /\ Len(codec.out) = 2
    /\ codec.variantOut = codec.out

\* Reading a CSV text the way the format defines it: a field in double quotes runs to
\* its closing quote, commas and line breaks included, and a doubled quote inside it
\* stands for one quote. A character is outside quotes when an even number of double
\* quotes precedes it.
Unquoted(s, i) == Cardinality({j \in 1..(i - 1) : s[j] = "\""}) % 2 = 0

\* the pieces of s between the occurrences of c that are outside quotes
Cut(s, c) ==
    LET seps == {i \in 1..Len(s) : s[i] = c /\ Unquoted(s, i)}
        n == Cardinality(seps)
        pos(k) == IF k = 0 THEN 0
                  ELSE IF k = n + 1 THEN Len(s) + 1
                  ELSE CHOOSE i \in seps : Cardinality({j \in seps : j < i}) = k - 1
    IN [k \in 1..(n + 1) |-> SubSeq(s, pos(k - 1) + 1, pos(k) - 1)]

\* a doubled quote stands for one quote
RECURSIVE Undouble(_)
Undouble(v) ==
    IF Len(v) < 2 THEN v
    ELSE IF v[1] = "\"" /\ v[2] = "\"" THEN <<"\"">> \o Undouble(SubSeq(v, 3, Len(v)))
    ELSE <<v[1]>> \o Undouble(Tail(v))

\* the value of a field: without its enclosing quotes when it has them
FieldValue(f) ==
    IF Len(f) >= 2 /\ f[1] = "\"" /\ f[Len(f)] = "\""
    THEN Undouble(SubSeq(f, 2, Len(f) - 1))
    ELSE f

\* the rows of the text, each the sequence of the values of its fields
ReadCsv(text) ==
    LET lines == Cut(text, LF)
    IN [r \in 1..Len(lines) |->
          LET fields == Cut(lines[r], ",")
          IN [k \in 1..Len(fields) |-> FieldValue(fields[k])]]

\* C34: the text dbToCsv returns is the line of the eight column names of CSV_HEADERS
\* followed by one row of eight fields per record of the ledger, in the order of the
\* ledger; the first field of a row is the serial of its record, and each of its last
\* four fields is True when activeFeatures holds the feature of the column and False
\* when it does not
C34_EncodeShape ==
    codec.pc \in {"encoded", "decoded"} =>
        LET rows == ReadCsv(codec.text)
        IN /\ Len(rows) = 1 + Len(codec.ledger)
           /\ rows[1] = CSV_HEADERS
           /\ \A i \in 1..Len(codec.ledger) :
                /\ Len(rows[i + 1]) = Len(CSV_HEADERS)
                /\ rows[i + 1][1] = codec.ledger[i].serial
                /\ \A k \in 1..Len(FeatureColumns) :
                     /\ rows[1][4 + k] = FeatureColumns[k][1]
                     /\ rows[i + 1][4 + k]
                          = IF includes(codec.ledger[i].data.activeFeatures, FeatureColumns[k][2])
                            THEN S_True ELSE S_False

\* C34 witness: a ledger of two records, one with features and with a line break in
\* its serial, one without features, has been encoded
C34_Witness ==
    /\ codec.pc = "encoded"
    /\ Len(codec.ledger) = 2
    /\ \E i \in 1..2 : /\ includes(codec.ledger[i].serial, LF)
                       /\ codec.ledger[i].data.activeFeatures = <<S_ndi, S_3d_models>>
    /\ \E i \in 1..2 : codec.ledger[i].data.activeFeatures = <<>>
    /\ Len(ReadCsv(codec.text)) = 3

\* the ids of the cart that start with feature-, each without that prefix
CartFeatures(cart) ==
    { SubSeq(cart[k].id, Len(S_feature_) + 1, Len(cart[k].id)) :
        k \in {j \in 1..Len(cart) : startsWith(cart[j].id, S_feature_)} }

\* the checkouts whose session the event of activation a reports as paid
CheckoutsOf(a) ==
    {i \in 1..Len(checkout) : /\ checkout[i].session.created
                              /\ sessionEvent(checkout[i].session) = hook[a.h].ev}

\* C35: every activation comes from a checkout that created a session; it is applied
\* to the canonical form of the serial of that checkout, and the features of the
\* record after it are those the record held before and the feature- ids of the
\* cart without their prefix, and no other
C35_FeaturesFromCart ==
    \A k \in Acts :
        /\ CheckoutsOf(acts[k]) # {}
        /\ \A i \in CheckoutsOf(acts[k]) :
             /\ acts[k].serial = Canonical(checkout[i].req.serialNumber)
             /\ FeaturesIn(acts[k].db, acts[k].serial)
                  = Range(acts[k].pre) \cup CartFeatures(checkout[i].req.cart)

\* C35 witness: a record that held ndi has been activated again from a cart of a
\* license and two features, and holds the three features
C35_Witness ==
    \E k \in Acts :
        /\ Range(acts[k].pre) = {S_ndi}
        /\ \E i \in CheckoutsOf(acts[k]) :
             /\ Len(checkout[i].req.cart) = 3
             /\ checkout[i].req.cart[1].id = S_license_base
             /\ checkout[i].req.serialNumber # acts[k].serial
        /\ FeaturesIn(acts[k].db, acts[k].serial) = {S_ndi, S_parallax, S_3d_models}

\* the ids of the price list, and the names the price list inherits
PriceListIds ==
    { S_dp_mini_base, S_dp_pro_base, S_license_base, S_feature_ \o S_3d_models,
      S_feature_ \o S_parallax, S_feature_ \o S_image_addition, S_feature_ \o S_ndi }
InheritedNames == { S_constructor }

KnownObjectives == { OptionKey.k50mm, OptionKey.k60mm, OptionKey.k75mm }
KnownEyepieces == { OptionKey.Screen, OptionKey.Full_HD, OptionKey.k4K_UHD }

\* the request has an email and a cart, so the handler prices its items
Priced(c) == c.req.customerEmail \notin {Null, <<>>} /\ c.req.cart # <<>>

\* the unit amount is a function of id and options: any two items of handled carts with
\* the same id and the same options have the same amount, whatever else they hold
AmountByIdAndOptions ==
    \A i, j \in 1..Len(checkout) :
        \A k \in 1..Len(checkout[i].lineItems), l \in 1..Len(checkout[j].lineItems) :
            (/\ checkout[i].req.cart[k].id = checkout[j].req.cart[l].id
             /\ checkout[i].req.cart[k].options = checkout[j].req.cart[l].options)
                => checkout[i].lineItems[k] = checkout[j].lineItems[l]

\* the id is none of the price list and starts with neither of the product prefixes
UnknownId(item) ==
    /\ item.id \notin PriceListIds
    /\ ~startsWith(OrElse(item.id, <<>>), S_dp_mini_)
    /\ ~startsWith(OrElse(item.id, <<>>), S_dppro_)

\* a dp-mini- item with an objective or an eyepiece that the option tables do not have
MiniWithUnknownOption(item) ==
    /\ startsWith(OrElse(item.id, <<>>), S_dp_mini_)
    /\ \/ item.options.objective \notin KnownObjectives
       \/ item.options.eyepiece \notin KnownEyepieces

WithoutId(item) == item.id \in {Null, <<>>}

\* an item with an id that the price list neither has nor inherits and that is
\* unknown, or names a dp-mini- product with an unknown objective or eyepiece
RefusedId(item) ==
    /\ ~WithoutId(item)
    /\ item.id \notin PriceListIds \cup InheritedNames
    /\ UnknownId(item) \/ MiniWithUnknownOption(item)

=============================================================================
